---- MODULE Spec2Model ----
\* The AI gateway (lib/gemini.js, class GeminiAI) and the two HTTP handlers in
\* front of it (pages/api/gemini/chat.js: /chat and /project-builder).
\*
\* JavaScript strings are TLA+ strings (TLC evaluates Len, \o and SubSeq on
\* them). The backquote of the source's template literals is written ' because
\* a TLA+ string cannot hold it. Timestamps (new Date()) and console.error are
\* left out: no claim reads them and they change no other state.
EXTENDS Integers, Sequences, FiniteSets, TLC

\* ---------------------------------------------------------------- bounds
\* Longest conversationHistory a /chat request carries.
MaxHistory == 2
\* Longest provider text answering a /project-builder request.
MaxText == 3
\* Longest provider text in the specification of generateProjectPlan alone.
MaxPlanText == 6
\* Longest requirements list handed to generateCode called on its own.
MaxRequirements == 2
\* Most requests the handlers work on at the same time.
MaxRequests == 2
\* Most messages a GeminiChat user sends.
MaxSends == 6
\* Most calls of the Cloud Functions in one run.
MaxCalls == 3
\* Most createBot calls on one AxiomHybridEcosystem, and the last clock value.
MaxCreates == 3
MaxMillis == 2
\* Most threads calling FirebaseConfig at the same time.
MaxThreads == 2
\* Most calls one thread makes.
MaxRuns == 2

\* ------------------------------------------------------- string helpers
\* Array.prototype.join
RECURSIVE Join(_, _)
Join(parts, sep) ==
    IF Len(parts) = 0 THEN ""
    ELSE IF Len(parts) = 1 THEN parts[1]
    ELSE parts[1] \o sep \o Join(Tail(parts), sep)

\* requirements.map(req => '- ' + req)
Dashed(items) == [i \in 1..Len(items) |-> "- " \o items[i]]

\* s holds sub as a substring starting at position i
OccursAt(s, sub, i) ==
    /\ i >= 1
    /\ i + Len(sub) - 1 <= Len(s)
    /\ SubSeq(s, i, i + Len(sub) - 1) = sub

\* String.prototype.includes
Contains(s, sub) == \E i \in 1..(Len(s) + 1) : OccursAt(s, sub, i)

\* The positions of character c in s
Positions(s, c) == {i \in 1..Len(s) : SubSeq(s, i, i) = c}

Min(S) == CHOOSE x \in S : \A y \in S : x <= y
Max(S) == CHOOSE x \in S : \A y \in S : x >= y

\* All strings over alphabet of length exactly n, and of length at most n
RECURSIVE StringsOfLen(_, _)
StringsOfLen(alphabet, n) ==
    IF n = 0 THEN {""}
    ELSE {s \o c : s \in StringsOfLen(alphabet, n - 1), c \in alphabet}

StringsUpTo(alphabet, n) == UNION {StringsOfLen(alphabet, k) : k \in 0..n}

\* ------------------------------------------------ lib/gemini.js: prompts
\* generateCode: the template literal of lines 28-40
generateCodePrompt(language, description, requirements) ==
    "\nGenerate "
    \o language
    \o " code for the following requirements:\n\nDescription: "
    \o description
    \o "\n\nRequirements:\n"
    \o Join(Dashed(requirements), "\n")
    \o "\n\nPlease provide clean, well-commented code with proper error handling.\nInclude any necessary imports or dependencies.\n\nCode:\n"

\* analyzeCode: the template literal of lines 54-68
analyzeCodePrompt(code, language) ==
    "\nAnalyze the following "
    \o language
    \o " code and provide:\n1. Code quality assessment\n2. Potential improvements\n3. Security considerations\n4. Performance optimizations\n5. Best practices recommendations\n\nCode to analyze:\n'''"
    \o language
    \o "\n"
    \o code
    \o "\n'''\n\nAnalysis:\n"

\* generateFirebaseFunction: the template literal of lines 82-97
generateFirebaseFunctionPrompt(functionName, description) ==
    "\nCreate a Firebase Cloud Function with the following specifications:\n\nFunction Name: "
    \o functionName
    \o "\nDescription: "
    \o description
    \o "\n\nRequirements:\n- Use Firebase Functions v2 syntax\n- Include proper error handling\n- Add appropriate logging\n- Include input validation\n- Follow Firebase best practices\n- Return appropriate HTTP responses\n\nGenerate the complete function code:\n"

\* generateJavaCode: the template literal of lines 111-128
generateJavaCodePrompt(className, description, features) ==
    "\nGenerate Advanced Java code for a class named \""
    \o className
    \o "\":\n\nDescription: "
    \o description
    \o "\n\nFeatures to implement:\n"
    \o Join(Dashed(features), "\n")
    \o "\n\nRequirements:\n- Use Java 21 features where appropriate\n- Include proper JavaDoc comments\n- Implement appropriate design patterns\n- Add error handling and validation\n- Include unit test examples\n- Follow clean code principles\n\nGenerate the complete Java class:\n"

\* generateProjectPlan: the template literal of lines 160-231
generateProjectPlanPrompt(prompt, projectType, requirements, buildContextJSON) ==
    "\nYou are an expert software architect and project builder. Based on the user's prompt, generate a comprehensive project plan including:\n\n1. PROJECT ANALYSIS\n   - Understanding of requirements\n   - Technology recommendations\n   - Architecture decisions\n\n2. FILE STRUCTURE\n   - Complete directory structure\n   - File organization\n   - Naming conventions\n\n3. CODE GENERATION\n   - Component files with complete code\n   - Configuration files\n   - Package dependencies\n\n4. IMPLEMENTATION STEPS\n   - Step-by-step build process\n   - Command sequences\n   - Deployment instructions\n\n5. FIREBASE INTEGRATION\n   - Database schema\n   - Cloud functions\n   - Security rules\n   - Authentication setup\n\n6. JAVA INTEGRATION (if applicable)\n   - Java class structure\n   - Maven/Gradle configuration\n   - Spring Boot setup (if needed)\n   - Integration patterns\n\nProject Type: "
    \o projectType
    \o "\nBuild Context: "
    \o buildContextJSON
    \o "\nAdditional Requirements: "
    \o Join(requirements, ", ")
    \o "\n\nUser Prompt: "
    \o prompt
    \o "\n\nGenerate a detailed project plan in JSON format with the following structure:\n{\n  \"analysis\": \"Project understanding and recommendations\",\n  \"architecture\": \"System architecture overview\",\n  \"fileStructure\": {\n    \"directories\": [\"list of directories to create\"],\n    \"files\": [\n      {\n        \"path\": \"relative/path/to/file\",\n        \"type\": \"javascript|java|json|markdown|css|html\",\n        \"content\": \"complete file content\",\n        \"description\": \"purpose of this file\"\n      }\n    ]\n  },\n  \"dependencies\": {\n    \"npm\": [\"list of npm packages\"],\n    \"maven\": [\"list of maven dependencies\"],\n    \"firebase\": [\"list of firebase services needed\"]\n  },\n  \"commands\": {\n    \"setup\": [\"initialization commands\"],\n    \"development\": [\"development commands\"],\n    \"deployment\": [\"deployment commands\"]\n  },\n  \"features\": [\"list of implemented features\"],\n  \"nextSteps\": [\"suggested next development steps\"]\n}\n\nEnsure all code is production-ready, follows best practices, and includes proper error handling.\n"

\* ------------------------------------------------ lib/gemini.js: results
\* How a call ends: it returns a value or throws an error object.
Return(v) == [kind |-> "return", value |-> v]
Throw(name, message) == [kind |-> "throw", error |-> [name |-> name, message |-> message]]

\* The outcome of this.model.generateContent(prompt), result.response and
\* response.text() together: the text, or the error one of them throws.
NoOutcome == [kind |-> "none"]
TextOutcome(t) == [kind |-> "text", text |-> t]
ErrorOutcome(name, message) == [kind |-> "error", name |-> name, message |-> message]

\* A JavaScript value that is undefined, null, or an array of strings / turns
Absent == [kind |-> "absent", items |-> <<>>]
Null == [kind |-> "null", items |-> <<>>]
Array(items) == [kind |-> "array", items |-> items]

\* A JavaScript value that is undefined or a string
NoString == [has |-> FALSE, s |-> ""]
Str(s) == [has |-> TRUE, s |-> s]

\* A default parameter or destructuring default: it replaces undefined only
OrDefault(v, d) == IF v.kind = "absent" THEN d ELSE v
StrOrDefault(v, d) == IF v.has THEN v.s ELSE d
\* What a template literal or + prints for a string that may be undefined
Printed(v) == IF v.has THEN v.s ELSE "undefined"

\* Every method below yields: op, the method's name; calls, the prompts it
\* hands to the provider (none when it throws before its try block); result,
\* how it ends given the provider's outcome.

\* Mutant of generateCode: the catch block rethrows the provider's error
generateCode_Rethrow(language, description, requirements, outcome) ==
    [op |-> "generateCode",
     calls |-> <<generateCodePrompt(language, description, requirements)>>,
     result |-> IF outcome.kind = "text" THEN Return(outcome.text)
                ELSE IF outcome.kind = "error" THEN Throw(outcome.name, outcome.message)
                ELSE Throw("Error", "Failed to generate code")]

\* Mutant of generateCode: the text is returned with a line end added
generateCode_AddsNewline(language, description, requirements, outcome) ==
    [op |-> "generateCode",
     calls |-> <<generateCodePrompt(language, description, requirements)>>,
     result |-> IF outcome.kind = "text" THEN Return(outcome.text \o "\n")
                ELSE Throw("Error", "Failed to generate code")]

\* Mutant of generateCode: a call that lists no requirement is refused
generateCode_RequiresSome(language, description, requirements, outcome) ==
    IF requirements = <<>>
    THEN [op |-> "generateCode", calls |-> <<>>,
          result |-> Throw("Error", "Failed to generate code")]
    ELSE [op |-> "generateCode",
          calls |-> <<generateCodePrompt(language, description, requirements)>>,
          result |-> IF outcome.kind = "text" THEN Return(outcome.text)
                     ELSE Throw("Error", "Failed to generate code")]

generateCode(language, description, requirements, outcome) ==
    [op |-> "generateCode",
     calls |-> <<generateCodePrompt(language, description, requirements)>>,
     result |-> IF outcome.kind = "text" THEN Return(outcome.text)
                ELSE Throw("Error", "Failed to generate code")]

analyzeCode(code, language, outcome) ==
    [op |-> "analyzeCode",
     calls |-> <<analyzeCodePrompt(code, language)>>,
     result |-> IF outcome.kind = "text" THEN Return(outcome.text)
                ELSE Throw("Error", "Failed to analyze code")]

generateFirebaseFunction(functionName, description, outcome) ==
    [op |-> "generateFirebaseFunction",
     calls |-> <<generateFirebaseFunctionPrompt(functionName, description)>>,
     result |-> IF outcome.kind = "text" THEN Return(outcome.text)
                ELSE Throw("Error", "Failed to generate Firebase function")]

generateJavaCode(className, description, features, outcome) ==
    [op |-> "generateJavaCode",
     calls |-> <<generateJavaCodePrompt(className, description, features)>>,
     result |-> IF outcome.kind = "text" THEN Return(outcome.text)
                ELSE Throw("Error", "Failed to generate Java code")]

\* conversationHistory.map(msg => msg.role + ': ' + msg.content)
TurnLines(items) == [i \in 1..Len(items) |-> items[i].role \o ": " \o items[i].content]

\* Mutant of chatPrompt: the new message is put before the context
chatPrompt_MessageFirst(message, items) ==
    LET context == IF Len(items) > 0
                   THEN "Previous conversation:\n" \o Join(TurnLines(items), "\n") \o "\n\n"
                   ELSE ""
    IN  "User: " \o message \o "\n\n" \o context

\* chat, lines 142-146: the prompt, built before the try block
chatPrompt(message, items) ==
    LET context == IF Len(items) > 0
                   THEN "Previous conversation:\n" \o Join(TurnLines(items), "\n") \o "\n\n"
                   ELSE ""
    IN  context \o "User: " \o message

\* conversationHistory is undefined (the default [] applies), null (reading
\* .length throws a TypeError outside the try block) or an array.
chat(message, conversationHistory, outcome) ==
    LET history == OrDefault(conversationHistory, Array(<<>>))
    IN  IF history.kind = "null"
        THEN [op |-> "chat", calls |-> <<>>,
              result |-> Throw("TypeError", "Cannot read properties of null (reading 'length')")]
        ELSE [op |-> "chat",
              calls |-> <<chatPrompt(message, history.items)>>,
              result |-> IF outcome.kind = "text" THEN Return(outcome.text)
                         ELSE Throw("Error", "Failed to process chat message")]

\* ------------------------------------- JSON.parse and the regex of line 239
\* Provider texts are strings over these characters: the two braces the
\* regular expression looks for, what a JSON object with one member is made
\* of, and 1, which is a digit inside JSON and prose outside it.
JSONAlphabet == {"{", "}", "\"", ":", "1"}

CharAt(s, i) == IF i >= 1 /\ i <= Len(s) THEN SubSeq(s, i, i) ELSE ""

\* JSON values: <<"number", n>>, <<"string", s>>, <<"object", members>> with
\* members a sequence of <<key, value>> pairs.
JNumber(n) == <<"number", n>>
JString(s) == <<"string", s>>
JObject(members) == <<"object", members>>

ParseFail == [ok |-> FALSE, value |-> <<>>, next |-> 0]
Parsed(v, next) == [ok |-> TRUE, value |-> v, next |-> next]

\* A string literal at position i: up to the next double quote (the alphabet
\* has no backslash and no control character).
ParseString(s, i) ==
    IF CharAt(s, i) # "\"" THEN ParseFail
    ELSE LET closing == {j \in (i + 1)..Len(s) : CharAt(s, j) = "\""}
         IN  IF closing = {} THEN ParseFail
             ELSE Parsed(JString(SubSeq(s, i + 1, Min(closing) - 1)), Min(closing) + 1)

\* A number at position i: the longest run of digits
RECURSIVE DigitsEnd(_, _)
DigitsEnd(s, i) == IF CharAt(s, i) = "1" THEN DigitsEnd(s, i + 1) ELSE i

RECURSIVE Repunit(_)
Repunit(n) == IF n = 0 THEN 0 ELSE 10 * Repunit(n - 1) + 1

ParseNumber(s, i) ==
    IF CharAt(s, i) # "1" THEN ParseFail
    ELSE Parsed(JNumber(Repunit(DigitsEnd(s, i) - i)), DigitsEnd(s, i))

\* A value at position i: an object, a string or a number. Without a comma
\* in the alphabet an object has no member or one.
RECURSIVE ParseValue(_, _)
ParseValue(s, i) ==
    IF CharAt(s, i) = "\"" THEN ParseString(s, i)
    ELSE IF CharAt(s, i) = "1" THEN ParseNumber(s, i)
    ELSE IF CharAt(s, i) # "{" THEN ParseFail
    ELSE IF CharAt(s, i + 1) = "}" THEN Parsed(JObject(<<>>), i + 2)
    ELSE LET key == ParseString(s, i + 1)
         IN  IF ~key.ok \/ CharAt(s, key.next) # ":" THEN ParseFail
             ELSE LET val == ParseValue(s, key.next + 1)
                  IN  IF ~val.ok \/ CharAt(s, val.next) # "}" THEN ParseFail
                      ELSE Parsed(JObject(<< <<key.value[2], val.value>> >>), val.next + 1)

\* JSON.parse: the whole string is one value, else a SyntaxError (its message
\* names the offending token; every caller here discards it).
JSONparse(s) ==
    LET r == ParseValue(s, 1)
    IN  IF r.ok /\ r.next = Len(s) + 1 THEN Return(r.value)
        ELSE Throw("SyntaxError", "Unexpected token in JSON")

\* Mutant of RegexMatch: the pattern is /\{[\s\S]*/, an opening brace alone matches
RegexMatch_OpenOnly(text) ==
    IF Positions(text, "{") # {}
    THEN [found |-> TRUE, str |-> SubSeq(text, Min(Positions(text, "{")), Len(text))]
    ELSE [found |-> FALSE, str |-> ""]

\* Mutant of RegexMatch: the pattern anchored, /^\{[\s\S]*\}$/
RegexMatch_Anchored(text) ==
    IF Len(text) >= 2 /\ CharAt(text, 1) = "{" /\ CharAt(text, Len(text)) = "}"
    THEN [found |-> TRUE, str |-> text]
    ELSE [found |-> FALSE, str |-> ""]

\* text.match(/\{[\s\S]*\}/): the leftmost '{' that a '}' follows, up to the
\* last '}' (the star is greedy); null when there is none.
NoMatch == [found |-> FALSE, str |-> ""]
RegexMatch(text) ==
    LET opens == Positions(text, "{")
        closes == Positions(text, "}")
    IN  IF opens # {} /\ closes # {} /\ Min(opens) < Max(closes)
        THEN [found |-> TRUE, str |-> SubSeq(text, Min(opens), Max(closes))]
        ELSE NoMatch

\* lines 243-246: the object returned when the regex finds nothing
UnparsedPlan(text) ==
    JObject(<< <<"analysis", JString(text)>>,
               <<"error", JString("Could not parse structured project plan")>> >>)

\* JSON.stringify(buildContext, null, 2) for undefined (the default {} applies),
\* null and the empty object
buildContextJSON(buildContext) ==
    IF OrDefault(buildContext, Array(<<>>)).kind = "null" THEN "null" ELSE "{}"

\* generateProjectPlan, lines 159-252. requirements.join is evaluated in the
\* template, before the try block: a null requirements throws a TypeError
\* there. Inside the try block the provider's error and JSON.parse's
\* SyntaxError reach the same catch.
generateProjectPlan(prompt, projectType, requirements, buildContext, outcome) ==
    LET reqs == OrDefault(requirements, Array(<<>>))
    IN  IF reqs.kind = "null"
        THEN [op |-> "generateProjectPlan", calls |-> <<>>,
              result |-> Throw("TypeError", "Cannot read properties of null (reading 'join')")]
        ELSE [op |-> "generateProjectPlan",
              calls |-> <<generateProjectPlanPrompt(Printed(prompt),
                              StrOrDefault(projectType, "web"), reqs.items,
                              buildContextJSON(buildContext))>>,
              result |->
                  IF outcome.kind # "text"
                  THEN Throw("Error", "Failed to generate project plan")
                  ELSE LET jsonMatch == RegexMatch(outcome.text)
                       IN  IF jsonMatch.found
                           THEN IF JSONparse(jsonMatch.str).kind = "return"
                                THEN Return(JSONparse(jsonMatch.str).value)
                                ELSE Throw("Error", "Failed to generate project plan")
                           ELSE Return(UnparsedPlan(outcome.text))]

\* ---------------------------------------------- pages/api/gemini/chat.js
VARIABLES
    pc,             \* the request: "idle", "pending", "dispatched", "completed", "failed"
    req,            \* the request being handled: endpoint, method, body
    gwCalls,        \* the GeminiAI methods the handler has invoked, in order
    providerCalls,  \* the prompts handed to model.generateContent, in order
    outcome,        \* how the provider call ended, NoOutcome while none has
    caught,         \* the error the handler's catch block received, if any
    responses,      \* the responses sent with res.status(..).json(..), in order
    planIn,         \* generateProjectPlan alone: the provider's outcome
    planOut,        \* generateProjectPlan alone: how the method ended
    genIn,          \* generateCode alone: its arguments and the provider's outcome
    genOut,         \* generateCode alone: what the call did, NoResult before it
    rq,             \* concurrent handlers: the state of each invocation
    frames,         \* concurrent handlers: the const bindings of line 10 / 73
    gemini,         \* the GeminiAI instance every invocation imports
    state,          \* GeminiChat: messages, input, isLoading, selectedMode
    view,           \* GeminiChat: the state its last render closed over
    fetches,        \* GeminiChat: the bodies of the requests in flight
    sends,          \* GeminiChat: how many messages have been sent
    fsDocs,         \* Firestore: the documents, by path
    fsClock,        \* Firestore: the server's clock, one tick for each write
    fnCall,         \* Cloud Functions: the call being handled, NoCall when none
    fnLog,          \* Cloud Functions: the calls answered, with their responses
    bots,           \* AxiomHybridEcosystem.bots
    millis,         \* System.currentTimeMillis()
    returned,       \* AxiomHybridEcosystem: createBot's arguments and results, in order
    initialized,    \* FirebaseConfig.initialized
    firestore,      \* FirebaseConfig.firestore
    apps,           \* FirebaseApp: how often initializeApp ran, which apps exist
    threads         \* FirebaseConfig: the position of each calling thread

NoError == [name |-> "", message |-> ""]
NoResult == [kind |-> "none"]
NoRequest == [endpoint |-> "none"]

\* The variables of the parts of the program specified further down; the
\* handlers of chat.js leave them alone.
codeVars == <<genIn, genOut>>
concVars == <<rq, frames, gemini>>
clientVars == <<state, view, fetches, sends>>
storeVars == <<fsDocs, fsClock, fnCall, fnLog>>
ecoVars == <<bots, millis, returned>>
configVars == <<initialized, firestore, apps, threads>>
backendVars == <<storeVars, ecoVars, configVars>>
laterVars == <<codeVars, concVars, clientVars, backendVars>>

\* An invocation that has not started
Unborn ==
    [pc |-> "idle", req |-> NoRequest, gwCalls |-> <<>>, providerCalls |-> <<>>,
     outcome |-> NoOutcome, caught |-> NoError, responses |-> <<>>]
NoLocals == [kind |-> "none"]
\* gemini.js lines 8-11: the two fields the constructor sets
NewGeminiAI == [model |-> "gemini-pro", visionModel |-> "gemini-pro-vision"]

CodeIdle ==
    /\ genIn = NoOutcome
    /\ genOut = NoResult
ConcIdle ==
    /\ rq = [i \in 1..MaxRequests |-> Unborn]
    /\ frames = [f \in 0..MaxRequests |-> NoLocals]
    /\ gemini = NewGeminiAI
\* components/GeminiChat.js (part_006) lines 5-10: the first message shown (its
\* bullet characters written as *)
Greeting ==
    [role |-> "assistant",
     content |-> "Hello! I'm your Axiom AI assistant powered by Gemini. I can help you with:\n\n* Code generation (JavaScript, Java, Python)\n* Firebase functions\n* Advanced Java scripting\n* Code analysis and optimization\n* General programming questions\n\nWhat would you like to work on today?"]
\* lines 5-13: the four useState values of a mounted GeminiChat
MountedChat ==
    [messages |-> <<Greeting>>, input |-> "", isLoading |-> FALSE, selectedMode |-> "chat"]
ClientIdle ==
    /\ state = MountedChat
    /\ view = MountedChat
    /\ fetches = <<>>
    /\ sends = 0
\* No document in Firestore, no function called
NoCall == [fn |-> "none"]
NoDocs == [p \in {} |-> <<>>]
StoreIdle ==
    /\ fsDocs = NoDocs
    /\ fsClock = 0
    /\ fnCall = NoCall
    /\ fnLog = <<>>
\* AxiomHybridEcosystem.java lines 18-23: the constructor's empty bots map
EcoIdle ==
    /\ bots = NoDocs
    /\ millis = 0
    /\ returned = <<>>
\* FirebaseConfig (part_001) lines 21-22: the static fields as loaded
NoApps == [calls |-> 0, exists |-> FALSE]
\* A thread that has called nothing yet: where it is, the method it is in, if
\* it wrote the fields itself, its calls so far and what the last one yielded
Resting == [pc |-> "idle", op |-> "none", own |-> FALSE, runs |-> 0, result |-> "none"]
ConfigIdle ==
    /\ initialized = FALSE
    /\ firestore = "null"
    /\ apps = NoApps
    /\ threads = [t \in 1..MaxThreads |-> Resting]
BackendIdle == StoreIdle /\ EcoIdle /\ ConfigIdle
LaterInit == CodeIdle /\ ConcIdle /\ ClientIdle /\ BackendIdle

vars == <<pc, req, gwCalls, providerCalls, outcome, caught, responses, planIn, planOut, laterVars>>

\* req.body as the body parser leaves it: an object, or null (the JSON text null)
NullBody == [kind |-> "null"]

SeqsUpTo(S, n) == UNION {[1..k -> S] : k \in 0..n}

Methods == {"GET", "POST", "PUT"}
Turns == [role : {"user", "assistant"}, content : {"a", "b"}]
Histories == {Absent, Null} \cup {Array(h) : h \in SeqsUpTo(Turns, MaxHistory)}
Messages == {NoString, Str(""), Str("c")}
RecognizedModes == {"chat", "code", "java", "firebase", "analyze"}
Modes == {NoString} \cup {Str(m) : m \in RecognizedModes \cup {"", "translate"}}

ChatBodies ==
    {NullBody} \cup
    {[kind |-> "object", message |-> m, mode |-> md, conversationHistory |-> h] :
        m \in Messages, md \in Modes, h \in Histories}

ProjectBodies ==
    {NullBody} \cup
    {[kind |-> "object", prompt |-> p, projectType |-> t, requirements |-> r, buildContext |-> c] :
        p \in {NoString, Str("shop")}, t \in {NoString, Str("api")},
        r \in {Absent, Null, Array(<<>>), Array(<<"auth", "tests">>)},
        c \in {Absent, Null}}

Requests ==
    {[endpoint |-> "chat", method |-> m, body |-> b] : m \in Methods, b \in ChatBodies}
    \cup
    {[endpoint |-> "project-builder", method |-> m, body |-> b] : m \in Methods, b \in ProjectBodies}

\* What the provider can answer: a text, or an error of some class and message
ProviderErrors ==
    {ErrorOutcome(n, m) : n \in {"GoogleGenerativeAIFetchError", "TypeError"},
                          m \in {"fetch failed", "quota exceeded"}}
PlanTexts == StringsUpTo(JSONAlphabet, MaxText)
ChatTexts == {t \in PlanTexts : Len(t) <= 1}

Response(status, body) == [status |-> status, body |-> body]

\* Mutant of chatMethodNotAllowed: only GET is turned away
chatMethodNotAllowed_OnlyGet(method) == method = "GET"

\* lines 5 and 68: if (req.method !== 'POST')
chatMethodNotAllowed(method) == method # "POST"
projectMethodNotAllowed(method) == method # "POST"

\* line 12: if (!message), with message undefined or a string
messageMissing(message) == ~message.has \/ message.s = ""

\* Mutant of chatErrorBody: the details are the handler's own text
chatErrorBody_NoDetails(error) ==
    [error |-> "Failed to process chat message", details |-> "Internal server error"]

\* lines 57-60 and 86-89: the body of the 500 response
chatErrorBody(error) ==
    [error |-> "Failed to process chat message", details |-> error.message]
projectErrorBody(error) ==
    [error |-> "Failed to generate project plan", details |-> error.message]

\* lines 48-53: the body of the 200 response (timestamp left out)
chatSuccessBody(response, mode) ==
    [success |-> TRUE, response |-> response, mode |-> StrOrDefault(mode, "chat")]
\* lines 78-82
projectSuccessBody(projectPlan) == [success |-> TRUE, projectPlan |-> projectPlan]

\* Mutant of chatSwitch: the case 'code' has no break and runs into 'java'
chatSwitch_FallThrough(body, o) ==
    LET mode == StrOrDefault(body.mode, "chat")
        message == body.message.s
        code == generateCode("javascript", message,
                 <<"Clean, readable code", "Error handling", "Best practices">>, o)
        java == generateJavaCode("GeneratedClass", message,
                 <<"Modern Java patterns", "Documentation", "Unit tests">>, o)
    IN  IF mode = "code"
        THEN [op |-> java.op, calls |-> code.calls \o java.calls, result |-> java.result]
        ELSE IF mode = "java"
        THEN java
        ELSE IF mode = "firebase"
        THEN generateFirebaseFunction("generatedFunction", message, o)
        ELSE IF mode = "analyze"
        THEN analyzeCode(message, "javascript", o)
        ELSE chat(message, OrDefault(body.conversationHistory, Array(<<>>)), o)

\* Mutant of chatSwitch: an unrecognized mode falls to generateCode
chatSwitch_DefaultCode(body, o) ==
    LET mode == StrOrDefault(body.mode, "chat")
        message == body.message.s
    IN  IF mode = "java"
        THEN generateJavaCode("GeneratedClass", message,
                 <<"Modern Java patterns", "Documentation", "Unit tests">>, o)
        ELSE IF mode = "firebase"
        THEN generateFirebaseFunction("generatedFunction", message, o)
        ELSE IF mode = "analyze"
        THEN analyzeCode(message, "javascript", o)
        ELSE IF mode = "chat"
        THEN chat(message, OrDefault(body.conversationHistory, Array(<<>>)), o)
        ELSE generateCode("javascript", message,
                 <<"Clean, readable code", "Error handling", "Best practices">>, o)

\* Mutant of chatSwitch: the case 'java' calls generateCode
chatSwitch_JavaAsCode(body, o) ==
    LET mode == StrOrDefault(body.mode, "chat")
        message == body.message.s
    IN  IF mode = "code" \/ mode = "java"
        THEN generateCode("javascript", message,
                 <<"Clean, readable code", "Error handling", "Best practices">>, o)
        ELSE IF mode = "firebase"
        THEN generateFirebaseFunction("generatedFunction", message, o)
        ELSE IF mode = "analyze"
        THEN analyzeCode(message, "javascript", o)
        ELSE chat(message, OrDefault(body.conversationHistory, Array(<<>>)), o)

\* lines 18-46: the switch on mode (=== on strings; the destructuring default
\* 'chat' for an undefined mode), each case one Gateway call
chatSwitch(body, o) ==
    LET mode == StrOrDefault(body.mode, "chat")
        message == body.message.s
    IN  IF mode = "code"
        THEN generateCode("javascript", message,
                 <<"Clean, readable code", "Error handling", "Best practices">>, o)
        ELSE IF mode = "java"
        THEN generateJavaCode("GeneratedClass", message,
                 <<"Modern Java patterns", "Documentation", "Unit tests">>, o)
        ELSE IF mode = "firebase"
        THEN generateFirebaseFunction("generatedFunction", message, o)
        ELSE IF mode = "analyze"
        THEN analyzeCode(message, "javascript", o)
        ELSE chat(message, OrDefault(body.conversationHistory, Array(<<>>)), o)

\* line 76
projectCall(body, o) ==
    generateProjectPlan(body.prompt, body.projectType, body.requirements, body.buildContext, o)

\* The framework invokes a handler with a new request.
Arrive ==
    /\ pc = "idle"
    /\ \E r \in Requests : req' = r
    /\ pc' = "pending"
    /\ gwCalls' = <<>>
    /\ providerCalls' = <<>>
    /\ outcome' = NoOutcome
    /\ caught' = NoError
    /\ responses' = <<>>
    /\ UNCHANGED <<planIn, planOut, laterVars>>

\* Mutant of Fail: a caught error is thrown on instead of answered
Fail_Rethrow(status, body, error, calls) ==
    /\ pc' = "failed"
    /\ responses' = IF error = NoError THEN Append(responses, Response(status, body))
                    ELSE responses
    /\ caught' = error
    /\ gwCalls' = calls
    /\ UNCHANGED <<req, providerCalls, outcome, planIn, planOut, laterVars>>

\* The handler responds without reaching the provider: final state "failed".
Fail(status, body, error, calls) ==
    /\ pc' = "failed"
    /\ responses' = Append(responses, Response(status, body))
    /\ caught' = error
    /\ gwCalls' = calls
    /\ UNCHANGED <<req, providerCalls, outcome, planIn, planOut, laterVars>>

\* The handler reaches its await of the provider call.
Dispatch(call) ==
    /\ pc' = "dispatched"
    /\ gwCalls' = Append(gwCalls, call.op)
    /\ providerCalls' = providerCalls \o call.calls
    /\ UNCHANGED <<req, outcome, caught, responses, planIn, planOut, laterVars>>

\* /chat, lines 4-46, up to the await of the provider call
ChatHandler ==
    /\ pc = "pending"
    /\ req.endpoint = "chat"
    /\ IF chatMethodNotAllowed(req.method)
       THEN Fail(405, [error |-> "Method not allowed"], NoError, <<>>)
       ELSE IF req.body.kind = "null"
       THEN LET e == Throw("TypeError",
                       "Cannot destructure property 'message' of 'req.body' as it is null.").error
            IN  Fail(500, chatErrorBody(e), e, <<>>)
       ELSE IF messageMissing(req.body.message)
       THEN Fail(400, [error |-> "Message is required"], NoError, <<>>)
       ELSE LET call == chatSwitch(req.body, NoOutcome)
            IN  IF call.calls = <<>>
                THEN Fail(500, chatErrorBody(call.result.error), call.result.error, <<call.op>>)
                ELSE Dispatch(call)

\* /chat, lines 16-61, from the provider call's end to the response
ChatSettle ==
    /\ pc = "dispatched"
    /\ req.endpoint = "chat"
    /\ \E o \in {TextOutcome(t) : t \in ChatTexts} \cup ProviderErrors :
        LET result == chatSwitch(req.body, o).result
        IN  /\ outcome' = o
            /\ IF result.kind = "return"
               THEN /\ pc' = "completed"
                    /\ caught' = caught
                    /\ responses' = Append(responses,
                           Response(200, chatSuccessBody(result.value, req.body.mode)))
               ELSE /\ pc' = "failed"
                    /\ caught' = result.error
                    /\ responses' = Append(responses, Response(500, chatErrorBody(result.error)))
    /\ UNCHANGED <<req, gwCalls, providerCalls, planIn, planOut, laterVars>>

\* /project-builder, lines 67-76, up to the await of the provider call
ProjectHandler ==
    /\ pc = "pending"
    /\ req.endpoint = "project-builder"
    /\ IF projectMethodNotAllowed(req.method)
       THEN Fail(405, [error |-> "Method not allowed"], NoError, <<>>)
       ELSE IF req.body.kind = "null"
       THEN LET e == Throw("TypeError",
                       "Cannot destructure property 'prompt' of 'req.body' as it is null.").error
            IN  Fail(500, projectErrorBody(e), e, <<>>)
       ELSE LET call == projectCall(req.body, NoOutcome)
            IN  IF call.calls = <<>>
                THEN Fail(500, projectErrorBody(call.result.error), call.result.error, <<call.op>>)
                ELSE Dispatch(call)

\* /project-builder, lines 76-90, from the provider call's end to the response
ProjectSettle ==
    /\ pc = "dispatched"
    /\ req.endpoint = "project-builder"
    /\ \E o \in {TextOutcome(t) : t \in PlanTexts} \cup ProviderErrors :
        LET result == projectCall(req.body, o).result
        IN  /\ outcome' = o
            /\ IF result.kind = "return"
               THEN /\ pc' = "completed"
                    /\ caught' = caught
                    /\ responses' = Append(responses,
                           Response(200, projectSuccessBody(result.value)))
               ELSE /\ pc' = "failed"
                    /\ caught' = result.error
                    /\ responses' = Append(responses, Response(500, projectErrorBody(result.error)))
    /\ UNCHANGED <<req, gwCalls, providerCalls, planIn, planOut, laterVars>>

\* The handler has returned: the request's objects are discarded.
Done ==
    /\ pc \in {"completed", "failed"}
    /\ pc' = "idle"
    /\ req' = NoRequest
    /\ gwCalls' = <<>>
    /\ providerCalls' = <<>>
    /\ outcome' = NoOutcome
    /\ caught' = NoError
    /\ responses' = <<>>
    /\ UNCHANGED <<planIn, planOut, laterVars>>

Init ==
    /\ pc = "idle"
    /\ req = NoRequest
    /\ gwCalls = <<>>
    /\ providerCalls = <<>>
    /\ outcome = NoOutcome
    /\ caught = NoError
    /\ responses = <<>>
    /\ planIn = NoOutcome
    /\ planOut = NoResult
    /\ LaterInit

Next == Arrive \/ ChatHandler \/ ChatSettle \/ ProjectHandler \/ ProjectSettle \/ Done

Spec == Init /\ [][Next]_vars

\* ------------------------------------------ generateProjectPlan on its own
\* The method applied to one provider outcome: every text up to MaxPlanText
\* characters, and the provider's errors.
PlanInit ==
    /\ pc = "idle"
    /\ req = NoRequest
    /\ gwCalls = <<>>
    /\ providerCalls = <<>>
    /\ outcome = NoOutcome
    /\ caught = NoError
    /\ responses = <<>>
    /\ planIn \in {TextOutcome(t) : t \in StringsUpTo(JSONAlphabet, MaxPlanText)} \cup ProviderErrors
    /\ planOut = NoResult
    /\ LaterInit

PlanRun ==
    /\ planOut = NoResult
    /\ planOut' = generateProjectPlan(Str("shop"), NoString, Absent, Absent, planIn).result
    /\ UNCHANGED <<pc, req, gwCalls, providerCalls, outcome, caught, responses, planIn, laterVars>>

PlanNext == PlanRun

SpecPlan == PlanInit /\ [][PlanNext]_vars

\* ------------------------------------------------- generateCode on its own
\* The method called directly, as by any importer of lib/gemini.js, with every
\* requirements list up to MaxRequirements entries, the empty one included.
CodeLanguages == {"javascript", "python"}
CodeDescriptions == {"", "add"}
CodeRequirements == SeqsUpTo({"fast", "safe"}, MaxRequirements)

CodeInit ==
    /\ pc = "idle"
    /\ req = NoRequest
    /\ gwCalls = <<>>
    /\ providerCalls = <<>>
    /\ outcome = NoOutcome
    /\ caught = NoError
    /\ responses = <<>>
    /\ planIn = NoOutcome
    /\ planOut = NoResult
    /\ genIn \in [language : CodeLanguages, description : CodeDescriptions,
                  requirements : CodeRequirements,
                  outcome : {TextOutcome(t) : t \in ChatTexts} \cup ProviderErrors]
    /\ genOut = NoResult
    /\ ConcIdle
    /\ ClientIdle
    /\ BackendIdle

CodeRun ==
    /\ genOut = NoResult
    /\ genOut' = generateCode(genIn.language, genIn.description,
                              genIn.requirements, genIn.outcome)
    /\ UNCHANGED <<pc, req, gwCalls, providerCalls, outcome, caught, responses,
                   planIn, planOut, genIn, concVars, clientVars, backendVars>>

CodeNext == CodeRun

SpecCode == CodeInit /\ [][CodeNext]_vars

\* ------------------------------------------------ the handlers, concurrently
\* Up to MaxRequests invocations of the two handlers at once, interleaved at
\* their only suspension point (the await of the Gateway call). Each invocation
\* has its own req and res and its own const bindings; all of them call the
\* methods of the one GeminiAI instance exported on gemini.js line 380.
handlerVars == <<pc, req, gwCalls, providerCalls, outcome, caught, responses, planIn, planOut>>
HandlerIdle ==
    /\ pc = "idle"
    /\ req = NoRequest
    /\ gwCalls = <<>>
    /\ providerCalls = <<>>
    /\ outcome = NoOutcome
    /\ caught = NoError
    /\ responses = <<>>
    /\ planIn = NoOutcome
    /\ planOut = NoResult

Invocations == 1..MaxRequests

ConcRequests ==
    {r \in Requests :
        \/ /\ r.endpoint = "chat"
           /\ r.method = "GET"
           /\ r.body = NullBody
        \/ /\ r.endpoint = "chat"
           /\ r.method = "POST"
           /\ \/ r.body = NullBody
              \/ /\ r.body.kind = "object"
                 /\ r.body.message = Str("")
                 /\ r.body.mode = NoString
                 /\ r.body.conversationHistory = Absent
              \/ /\ r.body.kind = "object"
                 /\ r.body.message = Str("c")
                 /\ r.body.mode \in {NoString, Str("code"), Str("translate")}
                 /\ r.body.conversationHistory = Absent
              \/ /\ r.body.kind = "object"
                 /\ r.body.message = Str("c")
                 /\ r.body.mode = Str("chat")
                 /\ r.body.conversationHistory = Null
        \/ /\ r.endpoint = "project-builder"
           /\ r.method = "POST"
           /\ r.body.kind = "object"
           /\ r.body.prompt = Str("shop")
           /\ r.body.projectType = NoString
           /\ r.body.requirements = Absent
           /\ r.body.buildContext = Absent}

ConcOutcomes ==
    {TextOutcome("1"), TextOutcome("{1}"),
     ErrorOutcome("GoogleGenerativeAIFetchError", "fetch failed")}

NewInvocation(r) == [Unborn EXCEPT !.pc = "pending", !.req = r]

\* Mutant of chatFrame: the bindings are module-level variables of chat.js
chatFrame_Module(i) == 0

\* lines 10 and 73: message, mode, conversationHistory (prompt, projectType,
\* ...) are const bindings of the invocation that destructured them
chatFrame(i) == i
projectFrame(i) == i
frameOf(i, r) == IF r.req.endpoint = "chat" THEN chatFrame(i) ELSE projectFrame(i)

\* res.status(status).json(body), the invocation going to state next
sent(r, status, body, next) ==
    [r EXCEPT !.responses = Append(@, Response(status, body)), !.pc = next]

\* Mutant of handlerCatch: the catch block logs the error and sends nothing
handlerCatch_Silent(r, error) == [r EXCEPT !.caught = error]

\* lines 55-61 and 84-90: the catch block
handlerCatch(r, error) ==
    sent([r EXCEPT !.caught = error], 500,
         IF r.req.endpoint = "chat" THEN chatErrorBody(error) ELSE projectErrorBody(error),
         "failed")

\* lines 16-46 and 76: the Gateway method is called; it runs up to its await of
\* model.generateContent, or throws before it
handlerAwait(r) ==
    LET call == IF r.req.endpoint = "chat" THEN chatSwitch(r.req.body, NoOutcome)
                ELSE projectCall(r.req.body, NoOutcome)
    IN  IF call.calls = <<>>
        THEN handlerCatch([r EXCEPT !.gwCalls = Append(@, call.op)], call.result.error)
        ELSE [r EXCEPT !.pc = "dispatched",
                       !.gwCalls = Append(@, call.op),
                       !.providerCalls = @ \o [k \in 1..Len(call.calls) |->
                                                [model |-> gemini.model, prompt |-> call.calls[k]]]]

\* Mutant of reject400: the 400 is sent without return, the handler goes on
reject400_NoReturn(r) == handlerAwait(sent(r, 400, [error |-> "Message is required"], "pending"))

\* lines 12-14
reject400(r) == sent(r, 400, [error |-> "Message is required"], "failed")

\* lines 4-46 and 67-76: from the invocation to the await, or to the response
\* when the request is turned away or something throws
handlerEnter(r) ==
    IF r.req.endpoint = "chat"
    THEN IF chatMethodNotAllowed(r.req.method)
         THEN sent(r, 405, [error |-> "Method not allowed"], "failed")
         ELSE IF r.req.body.kind = "null"
         THEN handlerCatch(r, Throw("TypeError",
                  "Cannot destructure property 'message' of 'req.body' as it is null.").error)
         ELSE IF messageMissing(r.req.body.message)
         THEN reject400(r)
         ELSE handlerAwait(r)
    ELSE IF projectMethodNotAllowed(r.req.method)
         THEN sent(r, 405, [error |-> "Method not allowed"], "failed")
         ELSE IF r.req.body.kind = "null"
         THEN handlerCatch(r, Throw("TypeError",
                  "Cannot destructure property 'prompt' of 'req.body' as it is null.").error)
         ELSE handlerAwait(r)

\* lines 16-61 and 76-90: the awaited Gateway method ends; the handler answers
\* with what it returned and its own binding of mode, or catches what it threw
handlerSettle(r, locals, o) ==
    LET result == IF r.req.endpoint = "chat" THEN chatSwitch(r.req.body, o).result
                  ELSE projectCall(r.req.body, o).result
        settled == [r EXCEPT !.outcome = o]
    IN  IF result.kind = "return"
        THEN sent(settled, 200,
                  IF r.req.endpoint = "chat" THEN chatSuccessBody(result.value, locals.mode)
                  ELSE projectSuccessBody(result.value),
                  "completed")
        ELSE handlerCatch(settled, result.error)

ConcArrive(i) ==
    /\ rq[i].pc = "idle"
    /\ \E r \in ConcRequests : rq' = [rq EXCEPT ![i] = NewInvocation(r)]
    /\ UNCHANGED <<frames, gemini, handlerVars, codeVars, clientVars, backendVars>>

ConcEnter(i) ==
    /\ rq[i].pc = "pending"
    /\ rq' = [rq EXCEPT ![i] = handlerEnter(rq[i])]
    /\ frames' = IF rq[i].req.method = "POST" /\ rq[i].req.body.kind = "object"
                 THEN [frames EXCEPT ![frameOf(i, rq[i])] = rq[i].req.body]
                 ELSE frames
    /\ UNCHANGED <<gemini, handlerVars, codeVars, clientVars, backendVars>>

ConcSettle(i) ==
    /\ rq[i].pc = "dispatched"
    /\ rq[i].outcome = NoOutcome
    /\ \E o \in ConcOutcomes :
           rq' = [rq EXCEPT ![i] = handlerSettle(rq[i], frames[frameOf(i, rq[i])], o)]
    /\ UNCHANGED <<frames, gemini, handlerVars, codeVars, clientVars, backendVars>>

ConcInit == HandlerIdle /\ CodeIdle /\ ConcIdle /\ ClientIdle /\ BackendIdle

ConcNext == \E i \in Invocations : ConcArrive(i) \/ ConcEnter(i) \/ ConcSettle(i)

SpecConc == ConcInit /\ [][ConcNext]_vars

\* The same with the scheduling the runtime gives: an invoked handler runs to
\* its await or its response, and a provider call that has been made settles.
SpecConcFair ==
    /\ SpecConc
    /\ \A i \in Invocations : WF_vars(ConcEnter(i)) /\ WF_vars(ConcSettle(i))

\* ------------------------------------------- components/GeminiChat.js
\* The chat component (part_006 lines 1-170). state holds the useState values;
\* view is the render the handlers on screen closed over. Updates made in an
\* event handler are rendered before the next event; updates made after an
\* await are rendered in a later task (Render).
Whitespace == {" ", "\n", "\t"}
RECURSIVE trimStart(_)
trimStart(s) ==
    IF Len(s) > 0 /\ SubSeq(s, 1, 1) \in Whitespace THEN trimStart(SubSeq(s, 2, Len(s))) ELSE s
RECURSIVE trimEnd(_)
trimEnd(s) ==
    IF Len(s) > 0 /\ SubSeq(s, Len(s), Len(s)) \in Whitespace
    THEN trimEnd(SubSeq(s, 1, Len(s) - 1)) ELSE s
\* String.prototype.trim
trim(s) == trimEnd(trimStart(s))

\* Array.prototype.slice(start), start negative counting from the end
slice(items, start) ==
    LET from == IF start < 0 THEN Max({Len(items) + start, 0}) ELSE Min({start, Len(items)})
    IN  SubSeq(items, from + 1, Len(items))

\* Mutant of conversationHistory: the first ten messages, slice(0, 10)
conversationHistory_FirstTen(shown) == SubSeq(shown, 1, Min({10, Len(shown)}))

\* line 41: conversationHistory: messages.slice(-10)
conversationHistory(shown) == slice(shown, -10)

\* line 25: if (!input.trim() || isLoading) return;
sendBlocked(text, loading) == trim(text) = "" \/ loading

\* lines 37-42: the body of the POST
requestBody(v) ==
    [message |-> v.input, mode |-> v.selectedMode,
     conversationHistory |-> conversationHistory(v.messages)]

\* Mutant of sendUpdates: setIsLoading(true) is missing
sendUpdates_NoLoading(s, text) ==
    [s EXCEPT !.messages = Append(@, [role |-> "user", content |-> text]),
              !.input = ""]

\* lines 27-30: setMessages(prev => [...prev, userMessage]); setInput('');
\* setIsLoading(true)
sendUpdates(s, text) ==
    [s EXCEPT !.messages = Append(@, [role |-> "user", content |-> text]),
              !.input = "",
              !.isLoading = TRUE]

\* How a fetch can end: a 2xx response whose JSON has the text under response,
\* a response with another status, a body that is not JSON, a network failure
FetchOutcomes ==
    {[kind |-> "ok", status |-> 200, response |-> t] : t \in {"ok", ""}}
    \cup {[kind |-> "status", status |-> st, response |-> ""] : st \in {400, 500}}
    \cup {[kind |-> "badjson", status |-> 200, response |-> ""],
          [kind |-> "network", status |-> 0, response |-> ""]}

\* lines 45-58: the assistant message the try or the catch block adds
replyTo(o) ==
    IF o.kind = "ok"
    THEN [role |-> "assistant", content |-> o.response]
    ELSE [role |-> "assistant",
          content |-> "Sorry, I encountered an error. Please try again."]

\* Mutant of settleUpdates: the catch block adds no message
settleUpdates_SilentError(s, o) ==
    IF o.kind = "ok"
    THEN [s EXCEPT !.messages = Append(@, replyTo(o)), !.isLoading = FALSE]
    ELSE [s EXCEPT !.isLoading = FALSE]

\* Mutant of settleUpdates: setIsLoading(false) ends the try block, there is no finally
settleUpdates_NoFinally(s, o) ==
    IF o.kind = "ok"
    THEN [s EXCEPT !.messages = Append(@, replyTo(o)), !.isLoading = FALSE]
    ELSE [s EXCEPT !.messages = Append(@, replyTo(o))]

\* lines 45-61: setMessages(prev => [...prev, reply]); finally setIsLoading(false)
settleUpdates(s, o) ==
    [s EXCEPT !.messages = Append(@, replyTo(o)), !.isLoading = FALSE]

TypedTexts == {"", " ", "hi"}
ChatModes == {"chat", "code", "java", "firebase", "analyze"}

\* line 152: onChange of the textarea, which line 157 disables while loading
Type ==
    /\ ~view.isLoading
    /\ \E text \in TypedTexts :
        /\ text # state.input
        /\ state' = [state EXCEPT !.input = text]
    /\ view' = state'
    /\ UNCHANGED <<fetches, sends, handlerVars, codeVars, concVars, backendVars>>

\* line 99: onClick of a mode button
SelectMode ==
    /\ \E m \in ChatModes :
        /\ m # state.selectedMode
        /\ state' = [state EXCEPT !.selectedMode = m]
    /\ view' = state'
    /\ UNCHANGED <<fetches, sends, handlerVars, codeVars, concVars, backendVars>>

\* lines 24-43: sendMessage of the last render is called (Enter in the
\* textarea, the button, or any event that reached the handler); it returns at
\* once, or queues its three updates and starts the fetch
SendMessage ==
    /\ sends < MaxSends
    /\ IF sendBlocked(view.input, view.isLoading)
       THEN UNCHANGED <<state, view, fetches, sends>>
       ELSE /\ state' = sendUpdates(state, view.input)
            /\ view' = state'
            /\ fetches' = Append(fetches, requestBody(view))
            /\ sends' = sends + 1
    /\ UNCHANGED <<handlerVars, codeVars, concVars, backendVars>>

\* lines 33-61: a fetch settles and the rest of sendMessage runs
SettleFetch ==
    /\ \E k \in 1..Len(fetches) :
        fetches' = SubSeq(fetches, 1, k - 1) \o SubSeq(fetches, k + 1, Len(fetches))
    /\ \E o \in FetchOutcomes : state' = settleUpdates(state, o)
    /\ UNCHANGED <<view, sends, handlerVars, codeVars, concVars, backendVars>>

\* React renders the updates queued outside an event handler
Render ==
    /\ view # state
    /\ view' = state
    /\ UNCHANGED <<state, fetches, sends, handlerVars, codeVars, concVars, backendVars>>

ChatInit == HandlerIdle /\ CodeIdle /\ ConcIdle /\ ClientIdle /\ BackendIdle

ChatNext == Type \/ SelectMode \/ SendMessage \/ SettleFetch \/ Render

SpecChat == ChatInit /\ [][ChatNext]_vars

\* The same, with every fetch that was started settling.
SpecChatFair == SpecChat /\ WF_vars(SettleFetch)

\* --------------------------------- functions/index.js and axiom/index.js
\* The Cloud Functions that write to and read from Firestore, one call at a
\* time; each handler is suspended at its awaits of the Firestore operation.
\* Firestore itself (firebase-admin) is modelled by what its calls do:
\* collection.add creates a document under a new id, doc(path).set replaces a
\* document, doc(path).update changes the named fields of an existing one and
\* rejects with NOT_FOUND otherwise, collection.get returns the documents that
\* are direct children of the collection, a value of undefined is refused, and
\* every operation can reject because the service cannot be reached.
\* request.method is not read by any handler; new Date() stamps and the
\* confidence 0.95 of processAIRequest are left out.

\* FieldValue.serverTimestamp(), and the time the server puts in its place
ServerTimestamp == [has |-> TRUE, sentinel |-> "serverTimestamp"]
Timestamp(n) == [has |-> TRUE, t |-> n]

\* ResourcePath.split: the segments between '/', empty ones dropped
RECURSIVE splitPath(_)
splitPath(p) ==
    IF p = "" THEN <<>>
    ELSE IF Positions(p, "/") = {} THEN <<p>>
    ELSE LET i == Min(Positions(p, "/"))
             rest == splitPath(SubSeq(p, i + 1, Len(p)))
         IN  IF i = 1 THEN rest ELSE <<SubSeq(p, 1, i - 1)>> \o rest

\* CollectionReference.doc(documentPath): the path must be a non-empty string
\* without '//' and, appended to the collection, name a document (an even
\* number of segments)
docRef(collection, documentPath) ==
    IF ~documentPath.has \/ documentPath.s = "" \/ Contains(documentPath.s, "//")
    THEN Throw("Error", "Value for argument \"documentPath\" is not a valid resource path.")
    ELSE IF Len(<<collection>> \o splitPath(documentPath.s)) % 2 # 0
    THEN Throw("Error", "Value for argument \"documentPath\" must point to a document.")
    ELSE Return(<<collection>> \o splitPath(documentPath.s))

\* A document's data may not hold undefined
validData(data) == \A f \in DOMAIN data : data[f].has
InvalidData == Throw("Error", "Cannot use \"undefined\" as a Firestore value.")

\* The data as stored at server time now
stored(data, now) ==
    [f \in DOMAIN data |-> IF data[f] = ServerTimestamp THEN Timestamp(now) ELSE data[f]]

\* The documents that are direct children of a collection
childrenOf(docs, collection) == {p \in DOMAIN docs : Len(p) = 2 /\ p[1] = collection}

Numeral(n) == SubSeq("0123456789", n + 1, n + 1)
\* The id collection.add chooses: one no document of the collection has
autoId(docs, collection) == "auto" \o Numeral(Cardinality(childrenOf(docs, collection)) + 1)

\* The operations the handlers await
Refused(result) == [kind |-> "refused", result |-> result]
addOp(collection, data) ==
    IF validData(data) THEN [kind |-> "add", collection |-> collection, data |-> data]
    ELSE Refused(InvalidData)
setOp(collection, documentPath, data) ==
    IF docRef(collection, documentPath).kind = "throw" THEN Refused(docRef(collection, documentPath))
    ELSE IF ~validData(data) THEN Refused(InvalidData)
    ELSE [kind |-> "set", path |-> docRef(collection, documentPath).value, data |-> data]
updateOp(collection, documentPath, data) ==
    IF docRef(collection, documentPath).kind = "throw" THEN Refused(docRef(collection, documentPath))
    ELSE IF ~validData(data) THEN Refused(InvalidData)
    ELSE [kind |-> "update", path |-> docRef(collection, documentPath).value, data |-> data]
getOp(collection) == [kind |-> "get", collection |-> collection]

\* functions/index.js lines 24-36
createBot(body) ==
    addOp("bots", [name |-> body.name, type |-> body.type, config |-> body.config,
                   created |-> ServerTimestamp, status |-> Str("active")])

\* functions/index.js lines 57-76
processAIRequest(body) ==
    addOp("ai_interactions",
          [prompt |-> body.prompt, response |-> Str("Processed: " \o Printed(body.prompt)),
           botId |-> body.botId, context |-> body.context, timestamp |-> ServerTimestamp])

\* functions/index.js lines 96-106
createUser(body) ==
    setOp("users", body.uid,
          [email |-> body.email, displayName |-> body.displayName, uid |-> body.uid,
           created |-> ServerTimestamp, lastActive |-> ServerTimestamp])

\* axiom/index.js lines 45-50
updateBotConfig(body) ==
    updateOp("bots", body.botId, [config |-> body.config, updated |-> ServerTimestamp])

\* axiom/index.js lines 22-23: the two reads, in order
getEcosystemStatus(reads) == IF reads = <<>> THEN getOp("bots") ELSE getOp("users")

\* The operation a handler awaits next
operation(fn, body, reads) ==
    IF fn = "createBot" THEN createBot(body)
    ELSE IF fn = "processAIRequest" THEN processAIRequest(body)
    ELSE IF fn = "createUser" THEN createUser(body)
    ELSE IF fn = "updateBotConfig" THEN updateBotConfig(body)
    ELSE getEcosystemStatus(reads)

\* What Firestore holds after the operation, at server time now
applied(docs, op, now) ==
    IF op.kind = "add"
    THEN LET path == <<op.collection, autoId(docs, op.collection)>>
         IN  [p \in DOMAIN docs \cup {path} |->
                 IF p = path THEN stored(op.data, now) ELSE docs[p]]
    ELSE IF op.kind = "set"
    THEN [p \in DOMAIN docs \cup {op.path} |->
             IF p = op.path THEN stored(op.data, now) ELSE docs[p]]
    ELSE IF op.kind = "update"
    THEN [p \in DOMAIN docs |->
             IF p = op.path
             THEN [f \in DOMAIN docs[p] \cup DOMAIN op.data |->
                      IF f \in DOMAIN op.data THEN stored(op.data, now)[f] ELSE docs[p][f]]
             ELSE docs[p]]
    ELSE docs

\* What the awaited promise resolves to
resolved(docs, op) ==
    IF op.kind = "add" THEN Return(autoId(docs, op.collection))
    ELSE IF op.kind = "get" THEN Return(Cardinality(childrenOf(docs, op.collection)))
    ELSE Return("")

Unavailable == Throw("Error", "14 UNAVAILABLE: No connection established")
NotFound == Throw("Error", "5 NOT_FOUND: No document to update")

\* Mutant of canResolve: update writes whether or not the document exists
canResolve_Upsert(docs, op) == TRUE

\* update needs an existing document; every other operation can succeed
canResolve(docs, op) == ~(op.kind = "update" /\ op.path \notin DOMAIN docs)

\* The errors the awaited promise can reject with
rejections(docs, op) ==
    {Unavailable} \cup (IF op.kind = "update" /\ op.path \notin DOMAIN docs THEN {NotFound} ELSE {})

\* Mutant of catchBlock: the catch block answers as the try block does
catchBlock_Success(error) == [status |-> 200, body |-> [success |-> TRUE, error |-> error.message]]

\* The catch block of every handler: response.status(500).json(...)
catchBlock(error) == [status |-> 500, body |-> [success |-> FALSE, error |-> error.message]]

\* The response.json(...) at the end of each try block
succeeded(fn, body, value, reads) ==
    IF fn = "createBot"
    THEN [status |-> 200, body |-> [success |-> TRUE, botId |-> value,
                                    message |-> "Bot created successfully"]]
    ELSE IF fn = "processAIRequest"
    THEN [status |-> 200,
          body |-> [success |-> TRUE,
                    data |-> [response |-> "Processed: " \o Printed(body.prompt),
                              botId |-> body.botId]]]
    ELSE IF fn = "createUser"
    THEN [status |-> 200, body |-> [success |-> TRUE, message |-> "User created successfully"]]
    ELSE IF fn = "updateBotConfig"
    THEN [status |-> 200, body |-> [success |-> TRUE, message |-> "Bot configuration updated"]]
    ELSE [status |-> 200, body |-> [success |-> TRUE,
                                    data |-> [totalBots |-> reads[1], totalUsers |-> reads[2]]]]

\* The number of operations a handler awaits before it answers
awaits(fn) == IF fn = "getEcosystemStatus" THEN 2 ELSE 1

\* The request bodies sent to the functions
BotBodies ==
    {[name |-> Str("n"), type |-> Str("t"), config |-> c] : c \in {Str("c0"), NoString}}
InteractionBodies ==
    {[prompt |-> Str("p"), botId |-> Str("auto1"), context |-> c] : c \in {Str("x"), NoString}}
UserBodies ==
    {[email |-> Str(e), displayName |-> Str("d"), uid |-> Str(u)] :
        <<u, e>> \in {<<"u1", "e1">>, <<"u1", "e2">>, <<"u2", "e1">>,
                      <<"u1/x/y", "e1">>, <<"u1/x", "e1">>}}
ConfigBodies ==
    {[botId |-> b, config |-> Str("c1")] : b \in {Str("auto1"), Str("ghost"), NoString}}
StatusBodies == {[none |-> NoString]}
FnBodies(fn) ==
    IF fn = "createBot" THEN BotBodies
    ELSE IF fn = "processAIRequest" THEN InteractionBodies
    ELSE IF fn = "createUser" THEN UserBodies
    ELSE IF fn = "updateBotConfig" THEN ConfigBodies
    ELSE StatusBodies
Functions ==
    {"createBot", "processAIRequest", "createUser", "updateBotConfig", "getEcosystemStatus"}

\* A request arrives: the handler runs to its first await, or into its catch
\* block when the Firestore call throws at once
FnCall(fn, body) ==
    /\ fnCall = NoCall
    /\ Len(fnLog) < MaxCalls
    /\ fnCall' = IF operation(fn, body, <<>>).kind = "refused"
                 THEN [fn |-> fn, body |-> body, reads |-> <<>>, pc |-> "caught",
                       error |-> operation(fn, body, <<>>).result.error]
                 ELSE [fn |-> fn, body |-> body, reads |-> <<>>, pc |-> "awaiting"]
    /\ UNCHANGED <<fsDocs, fsClock, fnLog, handlerVars, codeVars, concVars, clientVars,
                   ecoVars, configVars>>

\* The awaited operation succeeds: Firestore applies it and the handler goes
\* on to its next await or to the end of its try block
StoreResolves ==
    /\ fnCall # NoCall
    /\ fnCall.pc = "awaiting"
    /\ LET op == operation(fnCall.fn, fnCall.body, fnCall.reads)
           value == resolved(fsDocs, op).value
           reads == IF op.kind = "get" THEN Append(fnCall.reads, value) ELSE fnCall.reads
       IN  /\ canResolve(fsDocs, op)
           /\ fsDocs' = applied(fsDocs, op, fsClock + 1)
           /\ fsClock' = IF op.kind = "get" THEN fsClock ELSE fsClock + 1
           /\ fnCall' = IF Len(reads) < awaits(fnCall.fn) /\ op.kind = "get"
                        THEN [fnCall EXCEPT !.reads = reads]
                        ELSE [fn |-> fnCall.fn, body |-> fnCall.body, reads |-> reads,
                              pc |-> "resolved", value |-> value]
    /\ UNCHANGED <<fnLog, handlerVars, codeVars, concVars, clientVars, ecoVars, configVars>>

\* The awaited operation rejects: nothing is written and the handler's catch
\* block runs
StoreRejects ==
    /\ fnCall # NoCall
    /\ fnCall.pc = "awaiting"
    /\ \E e \in rejections(fsDocs, operation(fnCall.fn, fnCall.body, fnCall.reads)) :
           fnCall' = [fn |-> fnCall.fn, body |-> fnCall.body, reads |-> fnCall.reads,
                      pc |-> "caught", error |-> e.error]
    /\ UNCHANGED <<fsDocs, fsClock, fnLog, handlerVars, codeVars, concVars, clientVars,
                   ecoVars, configVars>>

\* The handler answers and the call is over
FnRespond ==
    /\ fnCall # NoCall
    /\ fnCall.pc \in {"resolved", "caught"}
    /\ fnLog' = Append(fnLog,
                       [fn |-> fnCall.fn, body |-> fnCall.body,
                        response |-> IF fnCall.pc = "caught" THEN catchBlock(fnCall.error)
                                     ELSE succeeded(fnCall.fn, fnCall.body, fnCall.value,
                                                    fnCall.reads)])
    /\ fnCall' = NoCall
    /\ UNCHANGED <<fsDocs, fsClock, handlerVars, codeVars, concVars, clientVars,
                   ecoVars, configVars>>

StoreInit == HandlerIdle /\ CodeIdle /\ ConcIdle /\ ClientIdle /\ BackendIdle
StoreNext ==
    \/ \E fn \in Functions : \E body \in FnBodies(fn) : FnCall(fn, body)
    \/ StoreResolves
    \/ StoreRejects
    \/ FnRespond
SpecStore == StoreInit /\ [][StoreNext]_vars

\* ------------------------------------------------ AxiomHybridEcosystem.java
\* One AxiomHybridEcosystem object used by one thread: its bots map, the
\* system clock in milliseconds, and the createBot calls made so far with the
\* id each returned.

\* "bot_" + System.currentTimeMillis(), line 44
botIdAt(now) == "bot_" \o Numeral(now)

\* The botData map of lines 45-51
botData(name, type, config, now, created) ==
    [id |-> botIdAt(now), name |-> name, type |-> type, config |-> config,
     created |-> created, status |-> "active"]

\* Map.put: the entry of the key is added or replaced
put(map, key, value) ==
    [k \in DOMAIN map \cup {key} |-> IF k = key THEN value ELSE map[k]]

\* getBot, lines 64-66: the entry, or null
getBot(botId) == IF botId \in DOMAIN bots THEN bots[botId] ELSE Null

\* listBots, lines 72-80: the values of the map, as a bag
listBots == {<<k, bots[k]>> : k \in DOMAIN bots}

\* getStatus, lines 113-122: the fields computed from the object
getStatus == [initialized |-> TRUE, totalBots |-> Cardinality(DOMAIN bots)]

BotNames == {"a", "b"}

\* The clock advances by a millisecond
Tick ==
    /\ millis < MaxMillis
    /\ millis' = millis + 1
    /\ UNCHANGED <<bots, returned, handlerVars, codeVars, concVars, clientVars,
                   storeVars, configVars>>

\* createBot, lines 43-56: the clock is read for the id and again for the
\* created field, and may have advanced in between
CreateBot(name, created) ==
    /\ Len(returned) < MaxCreates
    /\ created \in millis..MaxMillis
    /\ bots' = put(bots, botIdAt(millis), botData(name, "t", "c", millis, created))
    /\ returned' = Append(returned, [name |-> name, created |-> created, id |-> botIdAt(millis)])
    /\ millis' = created
    /\ UNCHANGED <<handlerVars, codeVars, concVars, clientVars, storeVars, configVars>>

EcoInit == HandlerIdle /\ CodeIdle /\ ConcIdle /\ ClientIdle /\ BackendIdle
EcoNext ==
    \/ Tick
    \/ \E name \in BotNames : \E created \in 0..MaxMillis : CreateBot(name, created)
SpecEco == EcoInit /\ [][EcoNext]_vars

\* --------------------------------------------------- FirebaseConfig.java
\* The static methods initialize() and getFirestore() called by several
\* threads. The fields initialized and firestore are neither volatile nor
\* guarded by a lock, so a read by a thread that did not write the field itself
\* may yield the value in memory or the value the class was loaded with.
\* FirebaseApp.initializeApp is the library's: it registers the default app and
\* throws IllegalStateException when that app exists.
Threads == 1..MaxThreads

\* The values a read of initialized can yield in a thread
readsInitialized(own) == IF own THEN {initialized} ELSE {initialized, FALSE}
\* The values a read of firestore can yield in a thread
readsFirestore(own) == IF own THEN {firestore} ELSE {firestore, "null"}

\* Where a method goes on when initialize() has returned: initialize() called
\* directly is over, getFirestore() goes to its return statement (line 88)
afterInitialize(thread, result) ==
    IF thread.op = "initialize"
    THEN [thread EXCEPT !.pc = "done", !.result = result]
    ELSE [thread EXCEPT !.pc = "return"]

\* A thread calls initialize() or getFirestore()
Begin(t, op) ==
    /\ threads[t].pc = "idle"
    /\ threads[t].runs < MaxRuns
    /\ threads' = [threads EXCEPT ![t] =
                      [pc |-> IF op = "initialize" THEN "check" ELSE "getCheck", op |-> op,
                       own |-> threads[t].own, runs |-> threads[t].runs + 1,
                       result |-> "none"]]
    /\ UNCHANGED <<initialized, firestore, apps, handlerVars, codeVars, concVars,
                   clientVars, storeVars, ecoVars>>

\* if (!initialized) of line 85 and if (initialized) of line 28
ReadInitialized(t) ==
    /\ threads[t].pc \in {"check", "getCheck"}
    /\ \E seen \in readsInitialized(threads[t].own) :
           threads' = [threads EXCEPT ![t] =
               IF threads[t].pc = "getCheck"
               THEN [threads[t] EXCEPT !.pc = IF seen THEN "return" ELSE "check"]
               ELSE IF seen THEN afterInitialize(threads[t], "returned")
               ELSE [threads[t] EXCEPT !.pc = "credentials"]]
    /\ UNCHANGED <<initialized, firestore, apps, handlerVars, codeVars, concVars,
                   clientVars, storeVars, ecoVars>>

\* GoogleCredentials.getApplicationDefault() of line 36: the credentials, or an
\* IOException that lines 45-48 rethrow as a RuntimeException
Credentials(t) ==
    /\ threads[t].pc = "credentials"
    /\ \E found \in BOOLEAN :
           threads' = [threads EXCEPT ![t] =
               IF found THEN [threads[t] EXCEPT !.pc = "initializeApp"]
               ELSE [threads[t] EXCEPT !.pc = "done", !.result = "RuntimeException"]]
    /\ UNCHANGED <<initialized, firestore, apps, handlerVars, codeVars, concVars,
                   clientVars, storeVars, ecoVars>>

\* FirebaseApp.initializeApp(options) of line 40
InitializeApp(t) ==
    /\ threads[t].pc = "initializeApp"
    /\ apps' = [calls |-> apps.calls + 1, exists |-> TRUE]
    /\ threads' = [threads EXCEPT ![t] =
           IF apps.exists
           THEN [threads[t] EXCEPT !.pc = "done", !.result = "IllegalStateException"]
           ELSE [threads[t] EXCEPT !.pc = "setFirestore"]]
    /\ UNCHANGED <<initialized, firestore, handlerVars, codeVars, concVars,
                   clientVars, storeVars, ecoVars>>

\* firestore = FirestoreClient.getFirestore() of line 41
SetFirestore(t) ==
    /\ threads[t].pc = "setFirestore"
    /\ firestore' = "handle"
    /\ threads' = [threads EXCEPT ![t] = [threads[t] EXCEPT !.pc = "setInitialized", !.own = TRUE]]
    /\ UNCHANGED <<initialized, apps, handlerVars, codeVars, concVars,
                   clientVars, storeVars, ecoVars>>

\* initialized = true of line 42, and the return of initialize()
SetInitialized(t) ==
    /\ threads[t].pc = "setInitialized"
    /\ initialized' = TRUE
    /\ threads' = [threads EXCEPT ![t] = afterInitialize(threads[t], "returned")]
    /\ UNCHANGED <<firestore, apps, handlerVars, codeVars, concVars,
                   clientVars, storeVars, ecoVars>>

\* return firestore of line 88
ReturnFirestore(t) ==
    /\ threads[t].pc = "return"
    /\ \E seen \in readsFirestore(threads[t].own) :
           threads' = [threads EXCEPT ![t] = [threads[t] EXCEPT !.pc = "done", !.result = seen]]
    /\ UNCHANGED <<initialized, firestore, apps, handlerVars, codeVars, concVars,
                   clientVars, storeVars, ecoVars>>

\* The caller has the result and may call again
Finish(t) ==
    /\ threads[t].pc = "done"
    /\ threads' = [threads EXCEPT ![t] = [threads[t] EXCEPT !.pc = "idle"]]
    /\ UNCHANGED <<initialized, firestore, apps, handlerVars, codeVars, concVars,
                   clientVars, storeVars, ecoVars>>

\* isInitialized(), lines 95-97, as read by a thread that wrote nothing
isInitialized == readsInitialized(FALSE)

ConfigInit == HandlerIdle /\ CodeIdle /\ ConcIdle /\ ClientIdle /\ BackendIdle
ConfigNext ==
    \E t \in Threads :
        \/ Begin(t, "initialize")
        \/ Begin(t, "getFirestore")
        \/ ReadInitialized(t)
        \/ Credentials(t)
        \/ InitializeApp(t)
        \/ SetFirestore(t)
        \/ SetInitialized(t)
        \/ ReturnFirestore(t)
        \/ Finish(t)
SpecConfig == ConfigInit /\ [][ConfigNext]_vars

\* ================================================================ claims
Responded == pc \in {"completed", "failed"}
ChatPost == pc # "idle" /\ req.endpoint = "chat" /\ req.method = "POST"
ProjectPost == pc # "idle" /\ req.endpoint = "project-builder" /\ req.method = "POST"

\* C1: a POST /chat request whose message is empty or missing (the body null,
\* no message member, or the empty string) is answered 400 "Message is
\* required" and reaches no provider call.
C1_EmptyMessageIs400 ==
    (/\ ChatPost
     /\ pc # "pending"
     /\ \/ req.body.kind = "null"
        \/ ~req.body.message.has
        \/ req.body.message.s = "")
    => /\ pc = "failed"
       /\ responses = <<Response(400, [error |-> "Message is required"])>>
       /\ providerCalls = <<>>

\* C2: a request whose method is not POST is answered 405, whatever its body,
\* on both endpoints, and no Gateway method or provider call is made for it.
C2_NonPostIs405 ==
    (pc \notin {"idle", "pending"} /\ req.method # "POST")
    => /\ pc = "failed"
       /\ responses = <<Response(405, [error |-> "Method not allowed"])>>
       /\ gwCalls = <<>>
       /\ providerCalls = <<>>

\* C2 witness: a GET /chat carrying a body that a POST would have dispatched
C2_Witness ==
    /\ pc = "failed"
    /\ req.endpoint = "chat"
    /\ req.method = "GET"
    /\ req.body.kind = "object"
    /\ req.body.message = Str("c")
    /\ responses = <<Response(405, [error |-> "Method not allowed"])>>

\* s is the text of one JSON object
IsJSONObject(s) == CharAt(s, 1) = "{" /\ JSONparse(s).kind = "return"
Before(s, i) == SubSeq(s, 1, i - 1)
After(s, j) == SubSeq(s, j + 1, Len(s))
\* The object at i..j of s lies inside no larger JSON object of s
Outermost(s, i, j) ==
    \A i2 \in 1..i, j2 \in j..Len(s) :
        IsJSONObject(SubSeq(s, i2, j2)) => (i2 = i /\ j2 = j)
PlanRan == planOut # NoResult /\ planIn.kind = "text"

\* C3 as stated: whenever the provider's text holds a well-formed JSON object
\* (one that is part of no larger one), whatever stands before and after it,
\* generateProjectPlan returns that object parsed.
C3_EmbeddedObjectIsReturned ==
    PlanRan =>
        \A i \in 1..Len(planIn.text), j \in 1..Len(planIn.text) :
            (/\ i < j
             /\ IsJSONObject(SubSeq(planIn.text, i, j))
             /\ Outermost(planIn.text, i, j))
            => planOut = Return(JSONparse(SubSeq(planIn.text, i, j)).value)

\* C3 amended: when the text is prose, a well-formed JSON object, prose, with
\* no '{' in the prose before the object and no '}' in the prose after it,
\* generateProjectPlan returns that object parsed.
C3_BraceFreeProseIsParsed ==
    PlanRan =>
        \A i \in 1..Len(planIn.text), j \in 1..Len(planIn.text) :
            (/\ i < j
             /\ Positions(Before(planIn.text, i), "{") = {}
             /\ Positions(After(planIn.text, j), "}") = {}
             /\ IsJSONObject(SubSeq(planIn.text, i, j)))
            => planOut = Return(JSONparse(SubSeq(planIn.text, i, j)).value)

\* C3 witness: an object between prose on both sides, the prose before it
\* holding a '}' and the prose after it a '{', returned parsed
C3_Witness ==
    /\ PlanRan
    /\ planIn.text = "}1{}1{"
    /\ planOut = Return(JObject(<<>>))

\* C4: when the span from the first '{' to the last '}' is not valid JSON,
\* generateProjectPlan throws nothing: it returns a result that carries the
\* provider's text unchanged (and no structured plan).
C4_InvalidSpanDegrades ==
    (/\ PlanRan
     /\ RegexMatch(planIn.text).found
     /\ JSONparse(RegexMatch(planIn.text).str).kind = "throw")
    => /\ planOut.kind = "return"
       /\ \E k \in 1..Len(planOut.value[2]) :
              planOut.value[2][k][2] = JString(planIn.text)

\* C5: when the provider call of a POST /project-builder request returns
\* text, the response is 200, and when no JSON object could be extracted from
\* the text the response carries the raw text with the note that parsing failed.
C5_TextIsNeverAnHttpError ==
    (ProjectPost /\ Responded /\ outcome.kind = "text")
    => /\ Len(responses) = 1
       /\ responses[1].status = 200
       /\ (\/ ~RegexMatch(outcome.text).found
           \/ JSONparse(RegexMatch(outcome.text).str).kind = "throw")
          => responses[1].body.projectPlan = UnparsedPlan(outcome.text)

\* The message of the failure each Gateway method raises, as the claims
\* expect it: one fixed message for each method, naming the method's task.
GatewayFailure ==
    [o \in {"chat", "generateCode", "generateJavaCode", "generateFirebaseFunction",
            "analyzeCode", "generateProjectPlan"} |->
        CASE o = "chat" -> "Failed to process chat message"
          [] o = "generateCode" -> "Failed to generate code"
          [] o = "generateJavaCode" -> "Failed to generate Java code"
          [] o = "generateFirebaseFunction" -> "Failed to generate Firebase function"
          [] o = "analyzeCode" -> "Failed to analyze code"
          [] o = "generateProjectPlan" -> "Failed to generate project plan"]

\* The generic message of each handler's 500 response
HandlerFailure ==
    IF req.endpoint = "chat" THEN "Failed to process chat message"
    ELSE "Failed to generate project plan"

ProviderFailed == Responded /\ outcome.kind = "error"

\* C6 as stated: when the provider call fails, the response is 500, has an
\* error field, and its details field contains the provider's message.
C6_DetailsHoldProviderMessage ==
    ProviderFailed
    => /\ Len(responses) = 1
       /\ responses[1].status = 500
       /\ "error" \in DOMAIN responses[1].body
       /\ Contains(responses[1].body.details, outcome.message)

\* C6 amended: when the provider call fails, the response is 500, has an error
\* field, and its details field is the fixed message of the Gateway failure
\* of the method that was invoked, whatever the provider's message was.
C6_DetailsHoldGatewayMessage ==
    ProviderFailed
    => responses = <<Response(500, [error |-> HandlerFailure,
                                     details |-> GatewayFailure[gwCalls[1]]])>>

\* C6 witness: a failed provider call under mode java, answered 500
C6_Witness ==
    /\ ProviderFailed
    /\ req.endpoint = "chat"
    /\ gwCalls = <<"generateJavaCode">>
    /\ outcome.message = "quota exceeded"
    /\ responses[1].status = 500
    /\ responses[1].body.details = "Failed to generate Java code"

\* How the Gateway method this request invoked ends, were the provider's
\* outcome o
GatewayResult(o) ==
    IF req.endpoint = "chat" THEN chatSwitch(req.body, o).result
    ELSE projectCall(req.body, o).result

\* C7: after a provider failure the handler has caught a plain Error whose
\* message is the fixed one of the method invoked; the messages of different
\* methods differ, so it names the method; and whatever error the provider
\* had thrown, the method would have raised this same failure.
C7_UniformFailure ==
    /\ \A a, b \in DOMAIN GatewayFailure : a # b => GatewayFailure[a] # GatewayFailure[b]
    /\ ProviderFailed
       => /\ caught = [name |-> "Error", message |-> GatewayFailure[gwCalls[1]]]
          /\ \A o \in ProviderErrors : GatewayResult(o) = Throw(caught.name, caught.message)

\* C7 witness: generateCode's provider call failed with a TypeError
C7_Witness ==
    /\ ProviderFailed
    /\ outcome = ErrorOutcome("TypeError", "quota exceeded")
    /\ gwCalls = <<"generateCode">>
    /\ caught = [name |-> "Error", message |-> "Failed to generate code"]

\* A POST /chat request that passed the validation of lines 10-14
ChatValidated ==
    /\ ChatPost
    /\ pc # "pending"
    /\ req.body.kind = "object"
    /\ req.body.message.has
    /\ req.body.message.s # ""

\* C8: a validated POST /chat request whose mode is none of the recognized
\* ones invokes the method, hands the provider the prompt, and sends the
\* status and response text that the same request with mode "chat" does (the
\* response body's mode member repeats the request's mode).
C8_UnknownModeIsChat ==
    (/\ ChatValidated
     /\ req.body.mode.has
     /\ req.body.mode.s \notin RecognizedModes)
    => LET asChat == chatSwitch([req.body EXCEPT !.mode = Str("chat")], outcome)
       IN  /\ gwCalls = <<"chat">>
           /\ asChat.op = "chat"
           /\ providerCalls = asChat.calls
           /\ Responded =>
                IF asChat.result.kind = "return"
                THEN responses = <<Response(200,
                         [chatSuccessBody(asChat.result.value, Str("chat"))
                             EXCEPT !.mode = req.body.mode.s])>>
                ELSE responses = <<Response(500, chatErrorBody(asChat.result.error))>>

\* C8 witness: mode "translate" with a two-turn history, answered 200
C8_Witness ==
    /\ ChatValidated
    /\ pc = "completed"
    /\ req.body.mode = Str("translate")
    /\ req.body.conversationHistory.kind = "array"
    /\ Len(req.body.conversationHistory.items) = 2
    /\ gwCalls = <<"chat">>
    /\ responses[1].status = 200
    /\ responses[1].body.response = outcome.text

\* The Gateway method the claims expect for each recognized mode
ModeOperation ==
    [m \in RecognizedModes |->
        CASE m = "code" -> "generateCode"
          [] m = "java" -> "generateJavaCode"
          [] m = "firebase" -> "generateFirebaseFunction"
          [] m = "analyze" -> "analyzeCode"
          [] m = "chat" -> "chat"]

\* C9: no request invokes more than one Gateway method, and a validated POST
\* /chat request with a recognized or absent mode has invoked exactly the
\* method of its mode (chat for an absent mode).
C9_OneOperationPerMode ==
    /\ Len(gwCalls) <= 1
    /\ (ChatValidated /\ StrOrDefault(req.body.mode, "chat") \in RecognizedModes)
       => gwCalls = <<ModeOperation[StrOrDefault(req.body.mode, "chat")]>>

\* C9 witness: mode java answered by generateJavaCode with one provider call
C9_Witness ==
    /\ ChatValidated
    /\ pc = "completed"
    /\ req.body.mode = Str("java")
    /\ gwCalls = <<"generateJavaCode">>
    /\ Len(providerCalls) = 1

\* The strings of parts occur in s from position from on, in order and
\* without overlap
RECURSIVE OccurInOrder(_, _, _)
OccurInOrder(s, parts, from) ==
    \/ parts = <<>>
    \/ \E i \in from..Len(s) :
        /\ OccursAt(s, Head(parts), i)
        /\ OccurInOrder(s, Tail(parts), i + Len(Head(parts)))

\* C10: the prompt chat hands to the provider holds "<role>: <content>" of
\* every history turn in the history's order, and then "User: <message>".
C10_PromptKeepsHistoryOrder ==
    (/\ ChatValidated
     /\ gwCalls = <<"chat">>
     /\ providerCalls # <<>>)
    => LET h == req.body.conversationHistory.items
       IN  /\ Len(providerCalls) = 1
           /\ OccurInOrder(providerCalls[1],
                  [i \in 1..Len(h) |-> h[i].role \o ": " \o h[i].content]
                      \o <<"User: " \o req.body.message.s>>, 1)

\* C10 witness: the history user a, assistant b and the message c
C10_Witness ==
    /\ ChatValidated
    /\ gwCalls = <<"chat">>
    /\ req.body.conversationHistory = Array(<<[role |-> "user", content |-> "a"],
                                              [role |-> "assistant", content |-> "b"]>>)
    /\ providerCalls = <<"Previous conversation:\nuser: a\nassistant: b\n\nUser: c">>

\* ---------------------------------------------------------------------------
\* C16: generateCode called with an empty requirements list is not an error:
\* the prompt is assembled with nothing between "Requirements:" and the
\* closing instructions, it is handed to the provider exactly once, and the
\* call fails only if the provider does.
CodeRan == genOut # NoResult
C16_EmptyRequirementsIsNoError ==
    (CodeRan /\ genIn.requirements = <<>>) =>
        /\ Len(genOut.calls) = 1
        /\ Contains(genOut.calls[1], "Requirements:\n\n\nPlease provide")
        /\ ~Contains(genOut.calls[1], "\n- ")
        /\ Contains(genOut.calls[1], "Description: " \o genIn.description \o "\n")
        /\ (genIn.outcome.kind = "text" => genOut.result = Return(genIn.outcome.text))
        /\ (genOut.result.kind = "throw" => genIn.outcome.kind = "error")
C16_Witness ==
    /\ CodeRan
    /\ genIn.requirements = <<>>
    /\ genOut.result = Return("1")
    /\ Len(genOut.calls) = 1

\* ---------------------------------------------------------------------------
\* A POST request past the handler's own validation: for /chat an object body
\* with a non-empty message, for /project-builder (which validates nothing) an
\* object body.
ProjectValidated == ProjectPost /\ pc # "pending" /\ req.body.kind = "object"
Validated == ChatValidated \/ ProjectValidated
\* The prompt assembly reads .length of the list it was given (gemini.js lines
\* 142 and 209), which throws for null.
ListIsNull ==
    \/ /\ ChatValidated
       /\ gwCalls = <<"chat">>
       /\ req.body.conversationHistory = Null
    \/ /\ ProjectValidated
       /\ req.body.requirements = Null

ChatRequest == pc # "idle" /\ req.endpoint = "chat"
C15_ExactlyOneChatResponse ==
    ChatRequest =>
        /\ (~Responded => responses = <<>>)
        /\ Responded =>
            /\ Len(responses) = 1
            /\ responses[1].status \in {200, 400, 405, 500}
            /\ (responses[1].status = 200 <=> pc = "completed")
            /\ (caught # NoError =>
                    /\ responses[1].status = 500
                    /\ responses[1].body.details = caught.message)
            /\ (req.method = "POST" /\ req.body.kind = "null" => caught.name = "TypeError")
C15_Witness ==
    /\ ChatRequest
    /\ req.method = "POST"
    /\ req.body.kind = "object"
    /\ req.body.conversationHistory = Null
    /\ pc = "failed"
    /\ caught.name = "TypeError"
    /\ Len(responses) = 1
    /\ responses[1].status = 500

\* ---------------------------------------------------------------------------
\* C17: when the provider's text holds no '{' with a '}' somewhere after it,
\* POST /project-builder answers 200 and its projectPlan is the object
\* {analysis: the raw text, error: "Could not parse structured project plan"},
\* the value generateProjectPlan returned.
BraceFollowed(text) ==
    \E i \in 1..Len(text) : \E j \in (i + 1)..Len(text) :
        CharAt(text, i) = "{" /\ CharAt(text, j) = "}"
FallbackPlan(text) ==
    JObject(<< <<"analysis", JString(text)>>,
               <<"error", JString("Could not parse structured project plan")>> >>)
C17_UnstructuredTextDegrades ==
    (/\ ProjectValidated
     /\ Responded
     /\ outcome.kind = "text"
     /\ ~BraceFollowed(outcome.text))
    => /\ pc = "completed"
       /\ responses = <<Response(200, [success |-> TRUE,
                                       projectPlan |-> FallbackPlan(outcome.text)])>>
       /\ generateProjectPlan(req.body.prompt, req.body.projectType, req.body.requirements,
                              req.body.buildContext, outcome).result
              = Return(FallbackPlan(outcome.text))
C17_Witness ==
    /\ ProjectValidated
    /\ pc = "completed"
    /\ outcome = TextOutcome("}1{")
    /\ responses[1].status = 200
    /\ responses[1].body.projectPlan = FallbackPlan("}1{")

\* ---------------------------------------------------------------------------
Terminal == {"completed", "failed"}
ChatCompleted(i) == rq[i].pc = "completed" /\ rq[i].req.endpoint = "chat"

\* C11: the response field of a successful POST /chat is exactly the text the
\* provider returned, and two identical requests whose provider calls return
\* the same text get identical response fields.
C11_ResponseIsProviderText ==
    \A i \in Invocations :
        ChatCompleted(i) =>
            /\ rq[i].req.method = "POST"
            /\ rq[i].outcome.kind = "text"
            /\ Len(rq[i].responses) = 1
            /\ rq[i].responses[1].status = 200
            /\ rq[i].responses[1].body.response = rq[i].outcome.text
            /\ \A j \in Invocations :
                (/\ ChatCompleted(j)
                 /\ rq[j].req = rq[i].req
                 /\ rq[j].outcome.text = rq[i].outcome.text)
                => rq[j].responses[1].body.response = rq[i].responses[1].body.response
C11_Witness ==
    /\ ChatCompleted(1)
    /\ ChatCompleted(2)
    /\ rq[1].req = rq[2].req
    /\ rq[1].req.body.mode = Str("code")
    /\ rq[1].outcome = TextOutcome("{1}")
    /\ rq[2].outcome = TextOutcome("{1}")
    /\ rq[1].responses[1].body.response = "{1}"
    /\ rq[2].responses[1].body.response = "{1}"

\* ---------------------------------------------------------------------------
\* C13: every request follows pending -> dispatched -> completed or failed.
\* Its state only moves along idle -> pending, pending -> dispatched,
\* pending -> failed (turned away before any Gateway call), dispatched ->
\* completed and dispatched -> failed, so completed is reached only from
\* dispatched; a completed or failed request never changes again; and no
\* request is in both: it has no response before it ends, a single 200 when
\* completed and a single error response when failed.
LifecycleSteps ==
    {<<"idle", "pending">>, <<"pending", "dispatched">>, <<"pending", "failed">>,
     <<"dispatched", "completed">>, <<"dispatched", "failed">>}
OneOutcome(r) ==
    /\ r.pc \in {"idle", "pending", "dispatched", "completed", "failed"}
    /\ (r.pc \notin Terminal => r.responses = <<>>)
    /\ (r.pc = "completed" => Len(r.responses) = 1 /\ r.responses[1].status = 200)
    /\ (r.pc = "failed" => Len(r.responses) = 1 /\ r.responses[1].status \in {400, 405, 500})
C13_Lifecycle ==
    /\ [](\A i \in Invocations : OneOutcome(rq[i]))
    /\ [][\A i \in Invocations :
            /\ (rq[i].pc # rq'[i].pc => <<rq[i].pc, rq'[i].pc>> \in LifecycleSteps)
            /\ (rq[i].pc \in Terminal => rq'[i] = rq[i])]_vars
C13_Witness ==
    /\ rq[1].pc = "completed"
    /\ rq[1].outcome.kind = "text"
    /\ rq[2].pc = "failed"
    /\ rq[2].outcome.kind = "error"
    /\ rq[2].responses[1].status = 500

\* ---------------------------------------------------------------------------
\* What a handler answers to request r when it is the only invocation and its
\* provider call, if it makes one, ends as o.
AloneAnswer(r, o) ==
    IF r.method # "POST"
    THEN Response(405, [error |-> "Method not allowed"])
    ELSE IF r.body.kind = "null"
    THEN Response(500,
             [error |-> IF r.endpoint = "chat" THEN "Failed to process chat message"
                        ELSE "Failed to generate project plan",
              details |-> "Cannot destructure property '"
                          \o (IF r.endpoint = "chat" THEN "message" ELSE "prompt")
                          \o "' of 'req.body' as it is null."])
    ELSE IF r.endpoint = "chat" /\ (~r.body.message.has \/ r.body.message.s = "")
    THEN Response(400, [error |-> "Message is required"])
    ELSE LET result == IF r.endpoint = "chat" THEN chatSwitch(r.body, o).result
                       ELSE projectCall(r.body, o).result
         IN  IF result.kind = "return"
             THEN Response(200,
                      IF r.endpoint = "chat"
                      THEN [success |-> TRUE, response |-> result.value,
                            mode |-> IF r.body.mode.has THEN r.body.mode.s ELSE "chat"]
                      ELSE [success |-> TRUE, projectPlan |-> result.value])
             ELSE Response(500,
                      [error |-> IF r.endpoint = "chat" THEN "Failed to process chat message"
                                 ELSE "Failed to generate project plan",
                       details |-> result.error.message])

\* C14: concurrent requests are isolated. Under every interleaving of the
\* invocations, the shared GeminiAI instance stays as constructed, the prompts
\* an invocation hands to the provider are those of its own body, and its
\* response is the one it would get alone with the same provider outcome.
C14_Isolated ==
    /\ gemini = NewGeminiAI
    /\ \A i \in Invocations :
        /\ rq[i].pc \in Terminal => rq[i].responses = <<AloneAnswer(rq[i].req, rq[i].outcome)>>
        /\ rq[i].pc = "dispatched" =>
            /\ Len(rq[i].providerCalls) = 1
            /\ rq[i].providerCalls[1].prompt =
                   (IF rq[i].req.endpoint = "chat" THEN chatSwitch(rq[i].req.body, NoOutcome)
                    ELSE projectCall(rq[i].req.body, NoOutcome)).calls[1]
C14_Witness ==
    /\ rq[1].pc = "completed"
    /\ rq[1].req.endpoint = "chat"
    /\ rq[1].req.body.mode = Str("code")
    /\ rq[1].responses[1].body.mode = "code"
    /\ rq[2].pc = "dispatched"
    /\ rq[2].req.endpoint = "chat"
    /\ rq[2].req.body.mode = Str("translate")
    /\ frames[2] = rq[2].req.body

\* ---------------------------------------------------------------------------
\* C18: there is no timeout transition: a request leaves dispatched only in
\* the step in which its provider call returns or throws; and when every
\* provider call made eventually does, every request that has arrived
\* eventually is completed or failed.
C18_NoTimeout ==
    /\ [][\A i \in Invocations :
            (rq[i].pc = "dispatched" /\ rq'[i].pc # "dispatched")
            => /\ rq[i].outcome = NoOutcome
               /\ rq'[i].outcome \in ConcOutcomes
               /\ rq'[i].pc \in Terminal]_vars
    /\ \A i \in Invocations :
            (rq[i].pc \in {"pending", "dispatched"}) ~> (rq[i].pc \in Terminal)
C18_Witness ==
    /\ rq[1].pc = "failed"
    /\ rq[1].outcome.kind = "error"
    /\ rq[2].pc = "completed"
    /\ rq[2].req.endpoint = "project-builder"

\* ---------------------------------------------------------------------------
\* C19: the conversationHistory of every request GeminiChat sends is the last
\* min(10, n) of the n messages displayed before the new user message was
\* added, in their order; the message being sent, appended after them, is not
\* part of it.
LastSent == fetches[Len(fetches)]
SentHistoryIsWindow ==
    fetches # <<>> =>
        LET shown == SubSeq(state.messages, 1, Len(state.messages) - 1)
            n == Len(shown)
            k == IF n < 10 THEN n ELSE 10
            history == LastSent.conversationHistory
        IN  /\ Len(history) = k
            /\ \A j \in 1..k : history[j] = shown[n - k + j]
            /\ state.messages[n + 1] = [role |-> "user", content |-> LastSent.message]
C19_HistoryIsLastTen ==
    /\ []SentHistoryIsWindow
    /\ [][sends' = sends + 1 =>
            LET n == Len(state.messages)
                k == IF n < 10 THEN n ELSE 10
                history == fetches'[Len(fetches')].conversationHistory
            IN  /\ view.messages = state.messages
                /\ Len(history) = k
                /\ \A j \in 1..k : history[j] = state.messages[n - k + j]
                /\ Len(state'.messages) = n + 1
                /\ SubSeq(state'.messages, 1, n) = state.messages]_vars
C19_Witness ==
    /\ sends = 6
    /\ Len(fetches) = 1
    /\ Len(state.messages) = 12
    /\ Len(LastSent.conversationHistory) = 10
    /\ LastSent.conversationHistory[1] = state.messages[2]
    /\ LastSent.conversationHistory[10] = state.messages[11]
    /\ LastSent.conversationHistory[1].role = "user"

\* ---------------------------------------------------------------------------
\* C20: GeminiChat has at most one request in flight: one is in flight only
\* while isLoading is true, the handlers on screen then see isLoading true as
\* well, and in a step taken while isLoading is true no request is sent and no
\* user message is added (the only message added is the assistant's, when the
\* request settles).
C20_OneRequestInFlight ==
    /\ [](/\ Len(fetches) <= 1
          /\ (fetches # <<>> => state.isLoading)
          /\ (state.isLoading => view.isLoading /\ Len(fetches) = 1))
    /\ [][state.isLoading =>
            /\ sends' = sends
            /\ Len(fetches') <= Len(fetches)
            /\ \/ state'.messages = state.messages
               \/ /\ Len(state'.messages) = Len(state.messages) + 1
                  /\ state'.messages[Len(state'.messages)].role = "assistant"
                  /\ fetches' = <<>>]_vars
C20_Witness ==
    /\ state.isLoading
    /\ view.isLoading
    /\ Len(fetches) = 1
    /\ sends = 2
    /\ state.input = ""
    /\ state.messages[Len(state.messages)].role = "user"

\* ---------------------------------------------------------------------------
\* C21: the GeminiChat message list only grows and its roles alternate. It
\* starts with the assistant's greeting, an accepted send appends one user
\* message, the settling of the request (with a text or with any error)
\* appends exactly one assistant message, nothing else changes the list, and
\* whenever isLoading is false the last message is the assistant's.
RoleAt(j) == IF j % 2 = 1 THEN "assistant" ELSE "user"
C21_RolesAlternate ==
    /\ [](/\ Len(state.messages) >= 1
          /\ state.messages[1] = Greeting
          /\ \A j \in 1..Len(state.messages) : state.messages[j].role = RoleAt(j)
          /\ Len(state.messages) = 1 + sends + (IF state.isLoading THEN sends - 1 ELSE sends)
          /\ (~state.isLoading => state.messages[Len(state.messages)].role = "assistant"))
    /\ [][LET old == state.messages
              new == state'.messages
          IN  /\ Len(new) >= Len(old)
              /\ SubSeq(new, 1, Len(old)) = old
              /\ Len(new) <= Len(old) + 1
              /\ (sends' = sends + 1 =>
                      Len(new) = Len(old) + 1 /\ new[Len(new)].role = "user")
              /\ (Len(fetches') < Len(fetches) =>
                      Len(new) = Len(old) + 1 /\ new[Len(new)].role = "assistant")
              /\ (sends' = sends /\ Len(fetches') = Len(fetches) => new = old)]_vars
C21_Witness ==
    /\ ~state.isLoading
    /\ sends = 2
    /\ Len(state.messages) = 5
    /\ state.messages[3].content = "Sorry, I encountered an error. Please try again."
    /\ state.messages[5].content = "ok"
    /\ state.messages[4].role = "user"

\* ---------------------------------------------------------------------------
\* C22: every accepted send eventually sets isLoading back to false: the
\* settling of the fetch resets it whatever the outcome (a text, a non-2xx
\* status, a body that is not JSON, a network failure), and, every started
\* fetch settling, isLoading true leads to isLoading false.
C22_LoadingEnds ==
    /\ [][Len(fetches') < Len(fetches) => ~state'.isLoading]_vars
    /\ [][sends' = sends + 1 => state'.isLoading /\ Len(fetches') = Len(fetches) + 1]_vars
    /\ (state.isLoading ~> ~state.isLoading)
C22_Witness ==
    /\ ~state.isLoading
    /\ sends = 1
    /\ fetches = <<>>
    /\ state.messages[3].content = "Sorry, I encountered an error. Please try again."
    /\ view.isLoading

\* The answered calls of a function, and those answered with success
CallsOf(fn) == {i \in 1..Len(fnLog) : fnLog[i].fn = fn}
SuccessesOf(fn) == {i \in CallsOf(fn) : fnLog[i].response.body.success}
\* The call in progress has had its write applied and has not answered yet
Written(fn) == fnCall # NoCall /\ fnCall.fn = fn /\ fnCall.pc = "resolved"

\* C23: processAIRequest answers success only after the interaction is written
\* to ai_interactions: every success in the log has its record (same prompt,
\* response, botId and context) in the collection, the collection holds one
\* record for each success plus the one of a call that has written and not yet
\* answered, and a call whose write failed answers 500 with success false.
C23_LoggedBeforeSuccess ==
    /\ [](/\ Cardinality(childrenOf(fsDocs, "ai_interactions"))
               = Cardinality(SuccessesOf("processAIRequest"))
                 + (IF Written("processAIRequest") THEN 1 ELSE 0)
          /\ \A i \in SuccessesOf("processAIRequest") :
                 /\ fnLog[i].response.status = 200
                 /\ \E p \in childrenOf(fsDocs, "ai_interactions") :
                        /\ fsDocs[p].prompt = fnLog[i].body.prompt
                        /\ fsDocs[p].response.s = fnLog[i].response.body.data.response
                        /\ fsDocs[p].botId = fnLog[i].body.botId
                        /\ fsDocs[p].context = fnLog[i].body.context)
    /\ [][(fnCall # NoCall /\ fnCall.fn = "processAIRequest" /\ fnLog' # fnLog)
            => IF fnCall.pc = "caught"
               THEN /\ fnLog'[Len(fnLog')].response.status = 500
                    /\ ~fnLog'[Len(fnLog')].response.body.success
                    /\ fsDocs' = fsDocs
               ELSE fnCall.pc = "resolved"]_vars
\* One interaction was refused by the store and answered 500, another was
\* written and answered with success
C23_Witness ==
    /\ \E i \in CallsOf("processAIRequest") :
           /\ fnLog[i].response.status = 500
           /\ fnLog[i].body.context.has
    /\ SuccessesOf("processAIRequest") # {}

\* The uids of the createUser calls answered with success, and for a uid the
\* latest such call
CreatedUids == {fnLog[i].body.uid.s : i \in SuccessesOf("createUser")}
LatestCreate(uid) == Max({i \in SuccessesOf("createUser") : fnLog[i].body.uid.s = uid})
UsersOf(uid) == {p \in childrenOf(fsDocs, "users") : fsDocs[p].uid.s = uid}

\* C24: between calls, the users collection holds exactly one document for each
\* uid created with success, carrying the email and displayName of the latest
\* successful call for that uid, and no other document; the bots collection
\* holds one document for each successful createBot.
C24_OneDocumentPerUid ==
    fnCall = NoCall =>
        /\ \A uid \in CreatedUids :
               /\ Cardinality(UsersOf(uid)) = 1
               /\ \A p \in UsersOf(uid) :
                      /\ fsDocs[p].email = fnLog[LatestCreate(uid)].body.email
                      /\ fsDocs[p].displayName = fnLog[LatestCreate(uid)].body.displayName
        /\ Cardinality(childrenOf(fsDocs, "users")) = Cardinality(CreatedUids)
        /\ Cardinality(childrenOf(fsDocs, "bots")) = Cardinality(SuccessesOf("createBot"))

\* C25: every successful getEcosystemStatus reports as totalBots the number of
\* createBot calls answered with success before it and as totalUsers the number
\* of distinct uids of the createUser calls answered with success before it
\* (calls answered with a failure are not counted).
C25_StatusCounts ==
    \A i \in SuccessesOf("getEcosystemStatus") :
        /\ fnLog[i].response.body.data.totalBots
               = Cardinality({j \in SuccessesOf("createBot") : j < i})
        /\ fnLog[i].response.body.data.totalUsers
               = Cardinality({fnLog[j].body.uid.s : j \in {k \in SuccessesOf("createUser") : k < i}})

\* C26: while an updateBotConfig call runs, no document is created or removed,
\* every document other than bots/<botId> stays as it is, and no field other
\* than config and updated changes in any document; a call answered with
\* success has put its config into the bot's document, and a call whose botId
\* names no document of bots is answered 500 with success false.
C26_UpdateTouchesOnlyConfig ==
    [][(fnCall # NoCall /\ fnCall.fn = "updateBotConfig") =>
          LET bot == <<"bots", fnCall.body.botId.s>>
              answer == fnLog'[Len(fnLog')].response
          IN  /\ DOMAIN fsDocs' = DOMAIN fsDocs
              /\ \A p \in DOMAIN fsDocs :
                     /\ p # bot => fsDocs'[p] = fsDocs[p]
                     /\ \A f \in DOMAIN fsDocs[p] \ {"config", "updated"} :
                            f \in DOMAIN fsDocs'[p] /\ fsDocs'[p][f] = fsDocs[p][f]
              /\ (fnLog' # fnLog /\ answer.body.success) =>
                     /\ bot \in DOMAIN fsDocs
                     /\ fsDocs[bot].config = fnCall.body.config
                     /\ fsDocs[bot].updated = Timestamp(fsClock)
              /\ (fnLog' # fnLog /\ bot \notin DOMAIN fsDocs) =>
                     answer.status = 500 /\ ~answer.body.success]_vars
\* Two bots exist and an update of the first was answered with success: the
\* first has the new config and its other fields, the second is as created
C26_Witness ==
    /\ SuccessesOf("updateBotConfig") # {}
    /\ {<<"bots", "auto1">>, <<"bots", "auto2">>} \subseteq DOMAIN fsDocs
    /\ fsDocs[<<"bots", "auto1">>].config = Str("c1")
    /\ fsDocs[<<"bots", "auto1">>].name = Str("n")
    /\ fsDocs[<<"bots", "auto2">>].config = Str("c0")

\* C27: after n createBot calls the n returned ids are pairwise distinct,
\* getBot of each id yields the bot of the call that returned it, and listBots
\* and getStatus().totalBots report n bots.
C27_DistinctIds ==
    /\ \A i, j \in 1..Len(returned) : i # j => returned[i].id # returned[j].id
    /\ \A i \in 1..Len(returned) :
           /\ getBot(returned[i].id) # Null
           /\ getBot(returned[i].id).name = returned[i].name
           /\ getBot(returned[i].id).created = returned[i].created
    /\ Cardinality(listBots) = Len(returned)
    /\ getStatus.totalBots = Len(returned)

\* C28: under every interleaving of initialize() and getFirestore() calls,
\* FirebaseApp.initializeApp is invoked at most once, and isInitialized() can
\* yield true only when the firestore field holds the handle.
C28_InitializedOnce ==
    /\ apps.calls <= 1
    /\ TRUE \in isInitialized => firestore = "handle"

====
